---- MODULE Spec2Model ----
(***************************************************************************)
(* Model of the decision core of the Bio-Adaptive Tutor dashboard (v0.4):  *)
(* the emotion observation buffer and composite scorer of sketch.js, the   *)
(* scripted demo controller, and the webcam (external observation) mode    *)
(* of panels.js.                                                           *)
(*                                                                         *)
(* Numbers.  The code works on IEEE doubles; the model works on exact      *)
(* integers:                                                               *)
(*   - a confidence is kept in percent (unit 1/100), so the stored         *)
(*     normalizedConfidence 0.9 is the integer 90;                         *)
(*   - a composite score is kept in units of 1/ScoreOne;                   *)
(*   - intensity and the three cognitive metrics are kept in units of      *)
(*     1/One.                                                              *)
(* Times are milliseconds.  Date.now() and millis() are one clock, `now`.  *)
(***************************************************************************)
EXTENDS Integers, Sequences, FiniteSets, TLC

VARIABLES
    now,                 \* the clock: Date.now() / millis()
    emotionBuffer,       \* sketch.js:78   let emotionBuffer = []
    windowResults,       \* value returned by the latest selectWinningEmotion()
    snapshot,            \* value returned by the latest captureBiometricSnapshot()
    demoMode,            \* sketch.js:402
    currentScene,        \* sketch.js:403  index into demoScenes, from 0
    sceneStartTime,      \* sketch.js:3006
    transitioned,        \* demoScenes[i].transitioned (undefined reads FALSE)
    finalTransitioned,   \* demoScenes[i].finalTransitioned
    timers,              \* pending setTimeout callbacks of playScene
    currentEmotion,      \* sketch.js:30
    emotionIntensity,    \* sketch.js:58
    engagementScore,     \* sketch.js:29
    attentionScore,      \* sketch.js:68
    cognitiveLoad,       \* sketch.js:69
    webcamControlsState, \* sketch.js:73
    lastWebcamUpdate,    \* sketch.js:74
    isWebcamActive,      \* WebcamPanel.isWebcamActive
    startPending,        \* getUserMedia promises not yet settled
    pendingAnalysis,     \* WebcamPanel.pendingAnalysis
    inFlight,            \* detector requests not yet answered
    panelTimers,         \* timers the webcam panel has scheduled
    bioSignalData,       \* WebcamPanel.bioSignalData
    waves,               \* sketch.js:52-55  alpha/beta/theta/deltaAmplitude
    isWaitingForResponse,\* sketch.js: a chat request is awaiting its answer
    chatRequests,        \* fetch('/api/chat') promises not yet settled
    triggers,            \* pending setTimeout(triggerRandomStateChange, 1500)
    firstApplied,        \* history: first-transition effects applied this stay
    finalApplied,        \* history: final-transition effects applied this stay
    observed,            \* history: a detector result arrived since the
                         \*          webcam was last enabled
    frames,              \* history: draw() calls since the clock last moved
    chats,               \* history: chat messages added outside playScene
    lastOp               \* history: the operation that produced this state

bufVars == <<emotionBuffer, windowResults, snapshot>>
sceneVars == <<demoMode, currentScene, sceneStartTime, transitioned,
               finalTransitioned, timers, firstApplied, finalApplied>>
stateVars == <<currentEmotion, emotionIntensity, engagementScore,
               attentionScore, cognitiveLoad>>
webcamVars == <<webcamControlsState, lastWebcamUpdate, isWebcamActive,
                startPending, pendingAnalysis, inFlight, panelTimers,
                observed>>
autoVars == <<waves, isWaitingForResponse, chatRequests, triggers>>
ctlVars == <<sceneVars, stateVars, webcamVars, bioSignalData, autoVars,
             frames, chats>>
vars == <<now, bufVars, ctlVars, lastOp>>

-----------------------------------------------------------------------------
(* Bounds of the model *)

MaxBuf == 3                       \* most observations recorded into the buffer

\* instants at which the buffer operations are observed
BufferClock == {0, 2500, 5000, 5001}

\* record() called directly: raw labels ("Neutral" exercises toLowerCase())
\* and confidences in percent, in range and out of range
RawLabels == {"neutral", "Neutral", "happy"}
RawConfidences == {-10, 50, 90, 150}

\* labels handed to record() and to the emotion bar: the core four, the ones a
\* detector may add, capitalised ones, an unknown one and the empty string
LabelStrings == {"happy", "neutral", "confused", "frustrated", "angry", "sad",
                 "disgust", "fear", "surprise", "joy", "Sad", "Neutral",
                 "contempt", ""}
LabelConfidences == {50, 95}

\* what a detector reports: labels, and confidences in percent within 0..100
DetectedLabels == {"neutral", "happy", "confused"}
DetectedConfidences == {0, 80, 90, 95}

\* scripted timers that may be pending at once
MaxTimers == 3

\* draw() calls between two movements of the clock
MaxFrames == 1

\* chat messages added by the user, the tutor or a scripted chat timer
MaxChats == 1

\* webcam starts awaiting the camera, and detector requests awaiting an answer
MaxPendingStarts == 1
MaxInFlight == 1

\* observations the webcam mode records into the buffer
MaxObserved == 1

\* trend-tracking timers, timeouts and intervals together, scheduled at once
\* in a session of unbounded length
MaxTrendTimers == 1

\* operations of the session in which the webcam is enabled and disabled
MaxPanelSteps == 9

\* instants at which the timers of the webcam panel are observed: the webcam
\* is enabled, the first trend fetch comes due
PanelClock == {0, 5000}

\* instants at which the scripted demo is observed: the delays of the scene
\* table counted from an entry at 0
ScriptClock == {0, 3000, 6000, 8000}

\* instants at which the webcam mode is observed: before and after the first
\* WEBCAM_UPDATE_INTERVAL, and after a full emotion window
ModeClock == {0, 600, 6000}

\* (Math.random() - 0.5) * 0.1 of addChatMessage, in 1/One
ChatJitter == {-5000, 4999}

\* what the detector answers in webcam mode, confidence in percent
WebcamLabels == {"happy", "sad"}
WebcamConfidences == {95}

\* the factor 0.95 + Math.random() * 0.1 of forceGlobalEmotionUpdate, per mille
RandomFactors == {950, 1049}

\* Math.random() of updateCognitiveMetricsForEmotion and of
\* updateEEGWavesForEmotion, per mille
RandomUnits == {0, 999}

\* Math.random() of updateEEGWavesForEmotion, per mille.  1000 stands for the
\* largest double below 1: in IEEE 754 double arithmetic base + r * 0.1 then
\* rounds to base + 0.1 itself (0.2 + r * 0.1 = 0.3, 0.4 + r * 0.1 = 0.5,
\* 0.8 + r * 0.1 = 0.9).
WaveRandoms == {0, 999, 1000}

\* the labels updateEEGWavesForEmotion is called with: the four it knows and
\* one it does not
WaveEmotions == {"happy", "neutral", "confused", "frustrated", "sad"}

\* Math.random() of setup(), per mille: the amplitudes the session starts with
SetupRandoms == {500}

\* Math.random() of triggerRandomStateChange, in percent: one draw inside
\* every interval the four transition tables cut [0, 1) into
TransitionDraws == {5, 30, 70, 90, 99}

\* messages the user submits to the tutor
MaxSubmits == 2

\* autonomous triggers that may be pending at once
MaxTriggers == 2

\* what one frame adds to alphaAmplitude and betaAmplitude, in 1/One (theta
\* and delta move by half of it)
WaveDrifts == {-200, 200}

\* instants at which all the modes together are observed: the entry into a
\* scene and the longest of the scripted delays
AllClock == {0, 8000}

\* operations of the session in which all the modes are observed together
MaxSteps == 8

\* operations of the session in which the scorer reads a live state
MaxPureSteps == 9

\* operations of the session in which the scene buttons are pressed freely
MaxIndexSteps == 10

\* instants at which a demo that is clicked through twice is observed: the
\* first entry into the last scene, the second entry, and the instant the
\* timers of the first entry come due
HopClock == {0, 3000, 6000}

\* operations of the session in which the demo is clicked through twice
MaxHopSteps == 23

\* instants at which the autonomous mode is observed: the submissions and
\* the answers at 0, their triggers 1500 ms later
AutoClock == {0, 1500}

-----------------------------------------------------------------------------
(* Program constants *)

EMOTION_WINDOW_SIZE == 5000
RecencyWeightPct == 5             \* RECENCY_WEIGHT = 0.05
NeutralThresholdPct == 90         \* normalizedConfidence < 0.9
NeutralPenaltyTenths == 9         \* score *= 0.9
DefaultConfidencePct == 50        \* avgConfidence default 0.5

One == 100000                     \* 1.0 as an intensity or a metric
WEBCAM_UPDATE_INTERVAL == 500
TrendFetchDelay == 5000           \* setTimeout(..., 5000) of startTrendTracking

\* 1.0 as a composite score: confidence (1/100) x recency factor (1/100000)
\* x penalty (1/10)
RecencyBase == (100 * EMOTION_WINDOW_SIZE) \div RecencyWeightPct
ScoreOne == (100 * RecencyBase) * 10

-----------------------------------------------------------------------------
(* Pure helpers *)

\* String.prototype.toLowerCase on the labels of the model
ToLowerCase(s) ==
    CASE s = "Neutral" -> "neutral"
      [] s = "Sad" -> "sad"
      [] OTHER -> s

\* variant of DisplayedEmotion that shows surprise as happy
DisplayedEmotion_SurpriseHappy(emotion) ==
    IF emotion = ""
    THEN "neutral"
    ELSE LET lower == ToLowerCase(emotion)
         IN  IF lower \in {"sad", "angry", "disgust", "fear"} THEN "frustrated"
             ELSE IF lower \in {"surprise", "joy"} THEN "happy"
             ELSE IF lower \notin {"happy", "neutral", "confused", "frustrated"}
                  THEN "neutral"
             ELSE lower

\* drawEmotionBar: the label the emotion bar shows for `emotion`
DisplayedEmotion(emotion) ==
    IF emotion = ""                       \* !emotion
    THEN "neutral"
    ELSE LET lower == ToLowerCase(emotion)
         IN  IF lower \in {"sad", "angry", "disgust", "fear"} THEN "frustrated"
             ELSE IF lower = "surprise" THEN "confused"
             ELSE IF lower = "joy" THEN "happy"
             ELSE IF lower \notin {"happy", "neutral", "confused", "frustrated"}
                  THEN "neutral"
             ELSE lower

\* history of the latest operation; `left` counts the operations a bounded
\* session may still perform (-1: the session is not bounded)
NoOp == [op |-> "init", emotion |-> "", confidence |-> 0, before |-> 0,
         left |-> -1]
Op(name, e, c) == [op |-> name, emotion |-> e, confidence |-> c,
                   before |-> Len(emotionBuffer),
                   left |-> IF lastOp.left > 0 THEN lastOp.left - 1
                            ELSE lastOp.left]

NoResult == [emotion |-> "", confNum |-> 0, confDen |-> 1, totalScore |-> 0]

NoSnapshot == [name |-> "", intensityNum |-> 0, intensityDen |-> 1,
               total_score |-> 0, buffer_size |-> 0, engagement |-> 0,
               attention |-> 0, cognitive_load |-> 0, source |-> ""]

\* variant of CleanedBuffer that also evicts the entry exactly at the cutoff
CleanedBuffer_StrictCutoff(buf, currentTime) ==
    LET cutoffTime == currentTime - EMOTION_WINDOW_SIZE
    IN  SelectSeq(buf, LAMBDA entry : entry.timestamp > cutoffTime)

\* cleanEmotionBuffer: entries with timestamp >= currentTime - window are kept
CleanedBuffer(buf, currentTime) ==
    LET cutoffTime == currentTime - EMOTION_WINDOW_SIZE
    IN  SelectSeq(buf, LAMBDA entry : entry.timestamp >= cutoffTime)

\* variant of BufferAfterAdd that also drops neutral at exactly the threshold
BufferAfterAdd_DropsAtThreshold(buf, emotionName, confidence, timestamp) ==
    IF ToLowerCase(emotionName) = "neutral" /\ confidence <= NeutralThresholdPct
    THEN buf
    ELSE CleanedBuffer(
            Append(buf, [emotion |-> emotionName, confidence |-> confidence,
                         timestamp |-> timestamp]),
            timestamp)

\* variant of BufferAfterAdd that appends without the clean
BufferAfterAdd_NoClean(buf, emotionName, confidence, timestamp) ==
    IF ToLowerCase(emotionName) = "neutral" /\ confidence < NeutralThresholdPct
    THEN buf
    ELSE Append(buf, [emotion |-> emotionName, confidence |-> confidence,
                      timestamp |-> timestamp])

\* addEmotionToBuffer: the new buffer
BufferAfterAdd(buf, emotionName, confidence, timestamp) ==
    LET normalizedConfidence == confidence      \* confidence / 100, in percent
    IN  IF ToLowerCase(emotionName) = "neutral"
           /\ normalizedConfidence < NeutralThresholdPct
        THEN buf                                 \* early return: no clean
        ELSE CleanedBuffer(
                Append(buf, [emotion |-> emotionName,
                             confidence |-> normalizedConfidence,
                             timestamp |-> timestamp]),
                timestamp)

\* variant of EntryScore without the penalty for neutral
EntryScore_NoPenalty(entry, currentTime) ==
    LET age == currentTime - entry.timestamp
    IN  entry.confidence * (RecencyBase + (EMOTION_WINDOW_SIZE - age)) * 10

\* variant of EntryScore whose recency factor grows with the age
EntryScore_OlderIsBetter(entry, currentTime) ==
    LET age == currentTime - entry.timestamp
        base == entry.confidence * (RecencyBase + age)
    IN  IF ToLowerCase(entry.emotion) = "neutral"
        THEN base * NeutralPenaltyTenths
        ELSE base * 10

\* one entry's composite score at currentTime
EntryScore(entry, currentTime) ==
    LET age == currentTime - entry.timestamp
        \* confidence * (1 + RECENCY_WEIGHT * (1 - age / EMOTION_WINDOW_SIZE))
        base == entry.confidence * (RecencyBase + (EMOTION_WINDOW_SIZE - age))
    IN  IF ToLowerCase(entry.emotion) = "neutral"
        THEN base * NeutralPenaltyTenths
        ELSE base * 10

RECURSIVE SumScores(_, _, _)
SumScores(buf, label, currentTime) ==
    IF buf = <<>> THEN 0
    ELSE (IF Head(buf).emotion = label THEN EntryScore(Head(buf), currentTime)
          ELSE 0)
         + SumScores(Tail(buf), label, currentTime)

\* keys of emotionScores in insertion order (Object.entries order)
RECURSIVE LabelsInOrder(_, _)
LabelsInOrder(buf, seen) ==
    IF buf = <<>> THEN <<>>
    ELSE IF Head(buf).emotion \in seen
         THEN LabelsInOrder(Tail(buf), seen)
         ELSE <<Head(buf).emotion>>
                \o LabelsInOrder(Tail(buf), seen \cup {Head(buf).emotion})

\* variant of CompositeEmotionScores without the default for an empty buffer
CompositeEmotionScores_NoDefault(buf, currentTime) ==
    LET keys == LabelsInOrder(buf, {})
    IN  [i \in 1..Len(keys) |->
            <<keys[i], SumScores(buf, keys[i], currentTime)>>]

\* calculateCompositeEmotionScores on an already cleaned buffer:
\* the sequence of <<label, score>> entries of the returned object
CompositeEmotionScores(buf, currentTime) ==
    IF buf = <<>>
    THEN << <<"neutral", ScoreOne>> >>
    ELSE LET keys == LabelsInOrder(buf, {})
         IN  [i \in 1..Len(keys) |->
                 <<keys[i], SumScores(buf, keys[i], currentTime)>>]

\* variant of PickWinner that returns the label seen last
PickWinner_MostRecent(entries, winningEmotion, highestScore) ==
    IF entries = <<>>
    THEN [emotion |-> winningEmotion, score |-> highestScore]
    ELSE [emotion |-> entries[Len(entries)][1],
          score |-> entries[Len(entries)][2]]

\* the loop of selectWinningEmotion: strict > against highestScore
RECURSIVE PickWinner(_, _, _)
PickWinner(entries, winningEmotion, highestScore) ==
    IF entries = <<>>
    THEN [emotion |-> winningEmotion, score |-> highestScore]
    ELSE IF Head(entries)[2] > highestScore
         THEN PickWinner(Tail(entries), Head(entries)[1], Head(entries)[2])
         ELSE PickWinner(Tail(entries), winningEmotion, highestScore)

RECURSIVE SumConfidence(_)
SumConfidence(buf) ==
    IF buf = <<>> THEN 0
    ELSE Head(buf).confidence + SumConfidence(Tail(buf))

\* variant of WinningEmotion that averages the confidences of the whole window
WinningEmotion_AllEntries(buf, currentTime) ==
    LET emotionScores == CompositeEmotionScores(buf, currentTime)
        w == PickWinner(emotionScores, "neutral", 0)
    IN  [emotion    |-> w.emotion,
         confNum    |-> IF Len(buf) > 0 THEN SumConfidence(buf)
                        ELSE DefaultConfidencePct,
         confDen    |-> IF Len(buf) > 0 THEN Len(buf) ELSE 1,
         totalScore |-> w.score]

\* selectWinningEmotion on the cleaned buffer
WinningEmotion(buf, currentTime) ==
    LET emotionScores == CompositeEmotionScores(buf, currentTime)
        w == PickWinner(emotionScores, "neutral", 0)
        winningEmotionEntries ==
            SelectSeq(buf, LAMBDA entry : entry.emotion = w.emotion)
    IN  [emotion    |-> w.emotion,
         confNum    |-> IF Len(winningEmotionEntries) > 0
                        THEN SumConfidence(winningEmotionEntries)
                        ELSE DefaultConfidencePct,
         confDen    |-> IF Len(winningEmotionEntries) > 0
                        THEN Len(winningEmotionEntries)
                        ELSE 1,
         totalScore |-> w.score]

-----------------------------------------------------------------------------
(* The scripted scene table and the helpers of the controller *)

Min(a, b) == IF a < b THEN a ELSE b
Max(a, b) == IF a > b THEN a ELSE b

\* p5's constrain(n, low, high)
Constrain(n, low, high) == Max(Min(n, high), low)

\* sketch.js:404-519.  An absent field is "" (a label) or 0 (a delay); both
\* are falsy in the code.  hasMessage2 / hasResponse: agentMessage2 is present,
\* userResponse is non-empty.
Scene(e, eng, att, cog, to, delay, fin, finDelay, m2, resp) ==
    [emotion |-> e, engagement |-> eng, attention |-> att,
     cognitiveLoad |-> cog, transitionTo |-> to, transitionDelay |-> delay,
     finalEmotion |-> fin, finalTransitionDelay |-> finDelay,
     hasMessage2 |-> m2, hasResponse |-> resp]

demoScenes ==
    << Scene("neutral",    70000, 65000, 30000, "",        0,    "", 0, FALSE, TRUE),
       Scene("happy",      75000, 70000, 40000, "",        0,    "", 0, FALSE, TRUE),
       Scene("confused",   40000, 50000, 80000, "confused", 8000, "", 0, TRUE, TRUE),
       Scene("frustrated", 60000, 65000, 60000, "neutral", 6000, "", 0, TRUE, TRUE),
       Scene("neutral",    70000, 70000, 50000, "happy",   6000, "", 0, TRUE, TRUE),
       Scene("happy",      80000, 75000, 40000, "neutral", 6000, "", 0, TRUE, TRUE),
       Scene("neutral",    80000, 75000, 30000, "happy",   3000,
             "neutral", 6000, FALSE, FALSE) >>

SceneIndexes == 0 .. (Len(demoScenes) - 1)
SceneAt(i) == demoScenes[i + 1]

\* scene.transitionDelay || 6000
DelayOr6000(d) == IF d = 0 THEN 6000 ELSE d

\* variant of JumpMetrics without the caps of Math.min and Math.max
JumpMetrics_Uncapped(e, eng, cog) ==
    IF e = "neutral" THEN <<eng + 20000, cog - 20000>>
    ELSE IF e = "happy" THEN <<eng + 30000, cog - 30000>>
    ELSE IF e = "frustrated" THEN <<eng - 20000, cog + 20000>>
    ELSE <<eng, cog>>

\* the metric adjustments that go with a scripted jump to emotion e
\* (sketch.js:887-896 and 3051-3060): <<engagement, cognitiveLoad>>
JumpMetrics(e, eng, cog) ==
    IF e = "neutral" THEN <<Min(eng + 20000, 90000), Max(cog - 20000, 30000)>>
    ELSE IF e = "happy" THEN <<Min(eng + 30000, 90000), Max(cog - 30000, 20000)>>
    ELSE IF e = "frustrated"
         THEN <<Max(eng - 20000, 20000), Min(cog + 20000, 90000)>>
    ELSE <<eng, cog>>

\* variant of Decayed that lets the intensity grow
Decayed_Growing(intensity) ==
    Constrain((intensity * 20001) \div 20000, 50000, One)

\* emotionIntensity * 0.99995, then constrain(.., 0.5, 1.0)
Decayed(intensity) == Constrain((intensity * 19999) \div 20000, 50000, One)

\* the timers playScene(sceneIndex) schedules at time t, in the order of the
\* setTimeout calls
SceneTimers(sceneIndex, t) ==
    LET scene == SceneAt(sceneIndex)
    IN  (IF scene.transitionTo # ""
         THEN << [kind |-> "first", scene |-> sceneIndex,
                  due |-> t + DelayOr6000(scene.transitionDelay),
                  stale |-> FALSE] >>
         ELSE <<>>)
        \o
        (IF scene.finalEmotion # ""
         THEN << [kind |-> "final", scene |-> sceneIndex,
                  due |-> t + DelayOr6000(scene.finalTransitionDelay),
                  stale |-> FALSE] >>
         ELSE <<>>)

\* history: every pending timer belongs to a stay that is over
MarkStale(ts) == [i \in DOMAIN ts |-> [ts[i] EXCEPT !.stale = TRUE]]

\* the timer the event loop runs next: the earliest due, the first scheduled
\* among equals
NextTimer(ts) ==
    CHOOSE i \in DOMAIN ts :
        \A j \in DOMAIN ts :
            ts[i].due < ts[j].due \/ (ts[i].due = ts[j].due /\ i <= j)

RemoveAt(ts, i) == SubSeq(ts, 1, i - 1) \o SubSeq(ts, i + 1, Len(ts))

\* `typeof window.demoMode !== 'undefined' && window.demoMode`: demoMode is a
\* top-level `let` of sketch.js, which creates no property of window
WindowDemoMode == FALSE

\* the timers of the webcam panel: captureInterval is running (part_003:424),
\* the due times of the pending timeouts of startTrendTracking
\* (part_003:1079), the number of running trend intervals (part_003:1083)
NoPanelTimers == [capture |-> FALSE, trend |-> <<>>, intervals |-> 0]

\* bioSignalData: "" is an absent label, -1 an absent metric
BioSignalData(cur, e, eng, att, cog) ==
    [currentEmotion |-> cur, emotion |-> e, engagement |-> eng,
     attention |-> att, cognitiveLoad |-> cog]

\* base + Math.random() * span, r the random number per mille
Drawn(base, span, r) == base + (r * span) \div 1000

Waves(a, b, t, d) == [alpha |-> a, beta |-> b, theta |-> t, delta |-> d]

\* variant of EEGWavesForEmotion with the alpha bases of confused and
\* frustrated exchanged
EEGWavesForEmotion_AlphaSwapped(e, w, r1, r2, r3, r4) ==
    IF e = "happy"
    THEN Waves(Drawn(80000, 10000, r1), Drawn(40000, 10000, r2),
               Drawn(30000, 10000, r3), Drawn(20000, 10000, r4))
    ELSE IF e = "neutral"
    THEN Waves(Drawn(50000, 10000, r1), Drawn(50000, 10000, r2),
               Drawn(30000, 10000, r3), Drawn(30000, 10000, r4))
    ELSE IF e = "confused"
    THEN Waves(Drawn(20000, 10000, r1), Drawn(80000, 10000, r2),
               Drawn(50000, 10000, r3), Drawn(30000, 10000, r4))
    ELSE IF e = "frustrated"
    THEN Waves(Drawn(30000, 10000, r1), Drawn(90000, 10000, r2),
               Drawn(40000, 10000, r3), Drawn(50000, 10000, r4))
    ELSE w

\* updateEEGWavesForEmotion(emotion) with its four random numbers, w the
\* amplitudes before the call (kept for a label outside the four)
EEGWavesForEmotion(e, w, r1, r2, r3, r4) ==
    IF e = "happy"
    THEN Waves(Drawn(80000, 10000, r1), Drawn(40000, 10000, r2),
               Drawn(30000, 10000, r3), Drawn(20000, 10000, r4))
    ELSE IF e = "neutral"
    THEN Waves(Drawn(50000, 10000, r1), Drawn(50000, 10000, r2),
               Drawn(30000, 10000, r3), Drawn(30000, 10000, r4))
    ELSE IF e = "confused"
    THEN Waves(Drawn(30000, 10000, r1), Drawn(80000, 10000, r2),
               Drawn(50000, 10000, r3), Drawn(30000, 10000, r4))
    ELSE IF e = "frustrated"
    THEN Waves(Drawn(20000, 10000, r1), Drawn(90000, 10000, r2),
               Drawn(40000, 10000, r3), Drawn(50000, 10000, r4))
    ELSE w

\* the animation of the amplitudes in the demo (sketch.js:1188-1191): no
\* constrain
AnimatedWaves(w, d) ==
    Waves(w.alpha + d, w.beta + d, w.theta + d \div 2, w.delta + d \div 2)

\* the variation of the amplitudes outside the demo (sketch.js:1257-1266 and
\* 1277-1286), constrained
VariedWaves(w, d) ==
    Waves(Constrain(w.alpha + d, 10000, One),
          Constrain(w.beta + d, 10000, One),
          Constrain(w.theta + d \div 2, 10000, 80000),
          Constrain(w.delta + d \div 2, 10000, 80000))

\* transitionProbabilities of triggerRandomStateChange for the current
\* emotion, in the order of the object's keys, the weights in percent
\* variant of TransitionProbabilities whose neutral row leaves out its last
\* key, so that the row sums to 0.95
TransitionProbabilities_Short(e) ==
    IF e = "neutral"
    THEN << <<"happy", 50>>, <<"confused", 30>>, <<"frustrated", 15>> >>
    ELSE IF e = "happy"
    THEN << <<"neutral", 15>>, <<"confused", 50>>, <<"frustrated", 25>>,
            <<"happy", 10>> >>
    ELSE <<>>

TransitionProbabilities(e) ==
    IF e = "neutral"
    THEN << <<"happy", 50>>, <<"confused", 30>>, <<"frustrated", 15>>,
            <<"neutral", 5>> >>
    ELSE IF e = "happy"
    THEN << <<"neutral", 15>>, <<"confused", 50>>, <<"frustrated", 25>>,
            <<"happy", 10>> >>
    ELSE IF e = "confused"
    THEN << <<"neutral", 10>>, <<"happy", 45>>, <<"frustrated", 25>>,
            <<"confused", 20>> >>
    ELSE IF e = "frustrated"
    THEN << <<"neutral", 15>>, <<"confused", 40>>, <<"happy", 30>>,
            <<"frustrated", 15>> >>
    ELSE <<>>

\* the selection loop of triggerRandomStateChange: the first key whose
\* cumulative probability reaches random, else newEmotion as it stands
RECURSIVE SelectedEmotion(_, _, _, _)
SelectedEmotion(entries, random, cumulativeProbability, newEmotion) ==
    IF entries = <<>> THEN newEmotion
    ELSE IF random <= cumulativeProbability + Head(entries)[2]
         THEN Head(entries)[1]
         ELSE SelectedEmotion(Tail(entries), random,
                              cumulativeProbability + Head(entries)[2],
                              newEmotion)

\* variant of SkipsRandomStateChange that forgets the webcam mode
SkipsRandomStateChange_DemoOnly(inDemo, webcamControls) == inDemo

\* the early return of triggerRandomStateChange (sketch.js:3312)
SkipsRandomStateChange(inDemo, webcamControls) == inDemo \/ webcamControls

-----------------------------------------------------------------------------
(* Operations of the observation buffer and the scorer *)

\* addEmotionToBuffer(emotionName, confidence) with timestamp = Date.now()
addEmotionToBuffer(emotionName, confidence) ==
    /\ Len(emotionBuffer) < MaxBuf
    /\ emotionBuffer' = BufferAfterAdd(emotionBuffer, emotionName, confidence, now)
    /\ windowResults' = NoResult
    /\ snapshot' = NoSnapshot
    /\ lastOp' = Op("record", emotionName, confidence)
    /\ UNCHANGED <<now, ctlVars>>

\* cleanEmotionBuffer() with currentTime = Date.now()
cleanEmotionBuffer ==
    /\ emotionBuffer' = CleanedBuffer(emotionBuffer, now)
    /\ windowResults' = NoResult
    /\ snapshot' = NoSnapshot
    /\ lastOp' = Op("clean", "", 0)
    /\ UNCHANGED <<now, ctlVars>>

\* variant of selectWinningEmotion that applies the winner to the live state
selectWinningEmotion_Drives ==
    /\ emotionBuffer' = CleanedBuffer(emotionBuffer, now)
    /\ windowResults' = WinningEmotion(emotionBuffer', now)
    /\ snapshot' = NoSnapshot
    /\ currentEmotion' = windowResults'.emotion
    /\ lastOp' = Op("select", "", 0)
    /\ UNCHANGED <<now, sceneVars, emotionIntensity, engagementScore,
                   attentionScore, cognitiveLoad, webcamVars, bioSignalData,
                   autoVars, frames, chats>>

\* selectWinningEmotion(): the clean pass, then the winner
selectWinningEmotion ==
    /\ emotionBuffer' = CleanedBuffer(emotionBuffer, now)
    /\ windowResults' = WinningEmotion(emotionBuffer', now)
    /\ snapshot' = NoSnapshot
    /\ lastOp' = Op("select", "", 0)
    /\ UNCHANGED <<now, ctlVars>>

\* metric || 0.5
OrHalf(metric) == IF metric = 0 THEN 50000 ELSE metric

\* variant of BiometricSnapshot that reports the live currentEmotion
BiometricSnapshot_Live(results, size, eng, att, cog) ==
    [name |-> currentEmotion,
     intensityNum |-> results.confNum,
     intensityDen |-> results.confDen,
     total_score |-> results.totalScore,
     buffer_size |-> size,
     engagement |-> OrHalf(eng),
     attention |-> OrHalf(att),
     cognitive_load |-> OrHalf(cog),
     source |-> IF webcamControlsState THEN "webcam"
                ELSE IF demoMode THEN "demo" ELSE "simulation"]

\* the object captureBiometricSnapshot() builds from the scorer's result,
\* the length of the cleaned buffer and the current metrics
BiometricSnapshot(results, size, eng, att, cog) ==
    [name |-> results.emotion,
     intensityNum |-> results.confNum,
     intensityDen |-> results.confDen,
     total_score |-> results.totalScore,
     buffer_size |-> size,
     engagement |-> OrHalf(eng),
     attention |-> OrHalf(att),
     cognitive_load |-> OrHalf(cog),
     source |-> IF webcamControlsState THEN "webcam"
                ELSE IF demoMode THEN "demo" ELSE "simulation"]

\* captureBiometricSnapshot(): the scorer's result and the current metrics
captureBiometricSnapshot ==
    /\ emotionBuffer' = CleanedBuffer(emotionBuffer, now)
    /\ windowResults' = WinningEmotion(emotionBuffer', now)
    /\ snapshot' = BiometricSnapshot(windowResults', Len(emotionBuffer'),
                                     engagementScore, attentionScore,
                                     cognitiveLoad)
    /\ lastOp' = Op("snapshot", "", 0)
    /\ UNCHANGED <<now, ctlVars>>

\* the clock moves on
BufferClockAdvance ==
    /\ \E t \in BufferClock : t > now /\ now' = t
    /\ windowResults' = NoResult
    /\ snapshot' = NoSnapshot
    /\ lastOp' = Op("clock", "", 0)
    /\ UNCHANGED <<emotionBuffer, ctlVars>>

\* the state after setup() (sketch.js:704-715, 750), op the history it
\* starts with
Started(op) ==
    /\ now = 0
    /\ emotionBuffer = <<>>
    /\ windowResults = NoResult
    /\ snapshot = NoSnapshot
    /\ demoMode = FALSE
    /\ currentScene = 0
    /\ sceneStartTime = 0
    /\ transitioned = [i \in SceneIndexes |-> FALSE]
    /\ finalTransitioned = [i \in SceneIndexes |-> FALSE]
    /\ timers = <<>>
    /\ currentEmotion = "neutral"
    /\ emotionIntensity = 50000
    /\ engagementScore = 70000
    /\ attentionScore = 65000
    /\ cognitiveLoad = 40000
    /\ webcamControlsState = FALSE
    /\ lastWebcamUpdate = 0
    /\ isWebcamActive = FALSE
    /\ startPending = 0
    /\ pendingAnalysis = FALSE
    /\ inFlight = 0
    /\ panelTimers = NoPanelTimers
    /\ bioSignalData = BioSignalData("neutral", "", -1, -1, -1)
    /\ \E r \in SetupRandoms :
          waves = Waves(Drawn(50000, 10000, r), Drawn(50000, 10000, r),
                        Drawn(30000, 10000, r), Drawn(30000, 10000, r))
    /\ isWaitingForResponse = FALSE
    /\ chatRequests = 0
    /\ triggers = <<>>
    /\ firstApplied = 0
    /\ finalApplied = 0
    /\ observed = FALSE
    /\ frames = 0
    /\ chats = 0
    /\ lastOp = op

Init == Started(NoOp)

\* record() with any label and any confidence
RecordRaw ==
    \E e \in RawLabels, c \in RawConfidences : addEmotionToBuffer(e, c)

\* record() with what a detector reports
RecordDetected ==
    \E e \in DetectedLabels, c \in DetectedConfidences : addEmotionToBuffer(e, c)

\* the observation buffer alone
NextBuffer ==
    \/ RecordRaw
    \/ cleanEmotionBuffer
    \/ BufferClockAdvance

SpecBuffer == Init /\ [][NextBuffer]_vars

\* record() with every kind of label
RecordLabel ==
    \E e \in LabelStrings, c \in LabelConfidences : addEmotionToBuffer(e, c)

\* the labels recorded and shown
NextLabel ==
    \/ RecordLabel
    \/ BufferClockAdvance

SpecLabel == Init /\ [][NextLabel]_vars

\* the buffer read by the composite scorer
NextScorer ==
    \/ RecordDetected
    \/ selectWinningEmotion
    \/ captureBiometricSnapshot
    \/ BufferClockAdvance

SpecScorer == Init /\ [][NextScorer]_vars

-----------------------------------------------------------------------------
(* The scripted demo controller *)

\* addChatMessage's effect on engagementScore, j the random term
Jittered(eng, j) == Constrain(eng + j, 20000, 95000)

\* playScene(sceneIndex): the synchronous part and the timers it schedules.
\* sceneIndex is always below demoScenes.length here (nextScene's guard), so
\* the early return of sketch.js:829 is never taken.  A session of bounded
\* length bounds the pending timers by itself.
playScene(sceneIndex, j) ==
    LET scene == SceneAt(sceneIndex)
        scheduled == SceneTimers(sceneIndex, now)
    IN  /\ lastOp.left >= 0 \/ Len(timers) + Len(scheduled) <= MaxTimers
        /\ engagementScore' = Jittered(scene.engagement, j)
        /\ currentEmotion' = scene.emotion
        /\ emotionIntensity' = 50000
        /\ bioSignalData' =
              [bioSignalData EXCEPT !.currentEmotion = scene.emotion]
        /\ timers' = MarkStale(timers) \o scheduled
        /\ firstApplied' = 0
        /\ finalApplied' = 0

\* the timers stopWebcam leaves (part_003:1055-1066): captureInterval is
\* cleared; this.trendInterval is never set, so no trend timer is cleared
StoppedTimers(pt) == [pt EXCEPT !.capture = FALSE]

\* WebcamPanel.stopWebcam as called by forceStopWebcam (isWebcamActive holds)
ForceStopped ==
    /\ isWebcamActive' = FALSE
    /\ webcamControlsState' = FALSE
    /\ panelTimers' = StoppedTimers(panelTimers)

\* the Start Demo / Stop Demo button
toggleDemo ==
    /\ demoMode' = ~demoMode
    /\ IF demoMode'
       THEN /\ IF isWebcamActive
               THEN ForceStopped
               ELSE UNCHANGED <<isWebcamActive, webcamControlsState,
                                panelTimers>>
            /\ currentScene' = 0
            /\ \E j \in ChatJitter : playScene(0, j)
       ELSE /\ timers' = MarkStale(timers)
            /\ UNCHANGED <<isWebcamActive, webcamControlsState, panelTimers,
                           currentScene,
                           engagementScore, currentEmotion, emotionIntensity,
                           bioSignalData, firstApplied, finalApplied>>
    /\ lastOp' = Op(IF demoMode' THEN "startDemo" ELSE "stopDemo", "", 0)
    /\ UNCHANGED <<now, bufVars, sceneStartTime, transitioned,
                   finalTransitioned, attentionScore, cognitiveLoad,
                   lastWebcamUpdate, startPending, pendingAnalysis, inFlight,
                   observed, autoVars, frames, chats>>

\* variant of nextScene that increments before it tests the index
nextScene_IncrementsFirst ==
    /\ demoMode
    /\ currentScene' = currentScene + 1
    /\ IF currentScene' < Len(demoScenes)
       THEN /\ \E j \in ChatJitter : playScene(currentScene', j)
            /\ sceneStartTime' = now
       ELSE UNCHANGED <<sceneStartTime, engagementScore, currentEmotion,
                        emotionIntensity, bioSignalData, timers, firstApplied,
                        finalApplied>>
    /\ lastOp' = Op("nextScene", "", currentScene')
    /\ UNCHANGED <<now, bufVars, demoMode, transitioned, finalTransitioned,
                   attentionScore, cognitiveLoad, webcamVars, autoVars,
                   frames, chats>>

\* the Next Scene button (shown only while the demo runs); sketch.js:3097
nextScene ==
    /\ demoMode
    /\ currentScene < Len(demoScenes) - 1
    /\ currentScene' = currentScene + 1
    /\ transitioned' =
          IF SceneAt(currentScene').transitionTo # ""
          THEN [transitioned EXCEPT ![currentScene'] = FALSE]
          ELSE transitioned
    /\ finalTransitioned' =
          IF SceneAt(currentScene').finalEmotion # ""
          THEN [finalTransitioned EXCEPT ![currentScene'] = FALSE]
          ELSE finalTransitioned
    /\ sceneStartTime' = now
    /\ \E j \in ChatJitter : playScene(currentScene', j)
    /\ lastOp' = Op("nextScene", "", currentScene')
    /\ UNCHANGED <<now, bufVars, demoMode, attentionScore, cognitiveLoad,
                   webcamVars, autoVars, frames, chats>>

\* the Next Scene button on the last scene: the test of sketch.js:3098 fails
\* and nothing is done
nextSceneOnLast ==
    /\ demoMode
    /\ ~(currentScene < Len(demoScenes) - 1)
    /\ lastOp' = Op("nextSceneOnLast", "", currentScene)
    /\ UNCHANGED <<now, bufVars, ctlVars>>

\* the Reset Demo button (shown only while the demo runs)
resetDemo ==
    /\ demoMode
    /\ currentScene' = 0
    /\ \E j \in ChatJitter : playScene(0, j)
    /\ lastOp' = Op("resetDemo", "", 0)
    /\ UNCHANGED <<now, bufVars, demoMode, sceneStartTime, transitioned,
                   finalTransitioned, attentionScore, cognitiveLoad,
                   webcamVars, autoVars, frames, chats>>

\* a setTimeout callback of playScene comes due and runs: the first
\* transition (sketch.js:867-897) or the final one (sketch.js:957-981)
SceneTimerFires ==
    /\ timers # <<>>
    /\ LET i == NextTimer(timers)
           t == timers[i]
           scene == SceneAt(t.scene)
           m == JumpMetrics(scene.transitionTo, engagementScore, cognitiveLoad)
       IN  /\ t.due <= now
           /\ timers' = RemoveAt(timers, i)
           /\ IF t.kind = "first"
              THEN /\ currentEmotion' = scene.transitionTo
                   /\ emotionIntensity' = 70000
                   /\ bioSignalData' = [bioSignalData EXCEPT
                                          !.currentEmotion = scene.transitionTo]
                   /\ engagementScore' = m[1]
                   /\ cognitiveLoad' = m[2]
                   /\ firstApplied' = firstApplied + (IF t.stale THEN 0 ELSE 1)
                   /\ UNCHANGED finalApplied
              ELSE /\ currentEmotion' = scene.finalEmotion
                   /\ emotionIntensity' = 60000
                   /\ bioSignalData' = [bioSignalData EXCEPT
                                          !.currentEmotion = scene.finalEmotion]
                   /\ engagementScore' = IF scene.finalEmotion = "neutral"
                                         THEN 70000 ELSE engagementScore
                   /\ cognitiveLoad' = IF scene.finalEmotion = "neutral"
                                       THEN 50000 ELSE cognitiveLoad
                   /\ finalApplied' = finalApplied + (IF t.stale THEN 0 ELSE 1)
                   /\ UNCHANGED firstApplied
           /\ lastOp' = Op(IF t.stale THEN "staleTimer" ELSE "timer",
                           t.kind, t.scene)
    /\ UNCHANGED <<now, bufVars, demoMode, currentScene, sceneStartTime,
                   transitioned, finalTransitioned, attentionScore,
                   webcamVars, autoVars, frames, chats>>

\* addChatMessage(sender, text): called by handleSubmit, by the tutor's
\* answer and by the scripted chat timers of playScene
addChatMessage ==
    /\ chats < MaxChats
    /\ chats' = chats + 1
    /\ \E j \in ChatJitter : engagementScore' = Jittered(engagementScore, j)
    /\ lastOp' = Op("chat", "", 0)
    /\ UNCHANGED <<now, bufVars, sceneVars, currentEmotion, emotionIntensity,
                   attentionScore, cognitiveLoad, webcamVars, bioSignalData,
                   autoVars, frames>>

-----------------------------------------------------------------------------
(* The per-frame tick *)

\* the values one call of draw() works on
Frame ==
    [emotion |-> currentEmotion, intensity |-> emotionIntensity,
     engagement |-> engagementScore, attention |-> attentionScore,
     cognitiveLoad |-> cognitiveLoad, bio |-> bioSignalData,
     lastUpdate |-> lastWebcamUpdate,
     transitioned |-> transitioned[currentScene],
     finalTransitioned |-> finalTransitioned[currentScene],
     first |-> 0, final |-> 0]

\* updateDemoScene(), first block (sketch.js:3018-3064)
FirstTransitionTick(f) ==
    LET scene == SceneAt(currentScene)
        elapsedTime == now - sceneStartTime
        m == JumpMetrics(scene.transitionTo, f.engagement, f.cognitiveLoad)
    IN  IF ~(scene.transitionTo # "" /\ ~f.transitioned
             /\ elapsedTime >= scene.transitionDelay)
        THEN f
        ELSE IF scene.transitionTo = f.emotion
        THEN [f EXCEPT !.intensity = 90000,
                       !.cognitiveLoad = Min(@ + 15000, 95000),
                       !.engagement = Max(@ - 10000, 30000),
                       !.attention = Max(@ - 10000, 40000),
                       !.transitioned = TRUE,
                       !.first = 1]
        ELSE [f EXCEPT !.emotion = scene.transitionTo,
                       !.intensity = 70000,
                       !.bio.currentEmotion = scene.transitionTo,
                       !.engagement = m[1],
                       !.cognitiveLoad = m[2],
                       !.transitioned = TRUE,
                       !.first = 1]

\* updateDemoScene(), second block (sketch.js:3067-3093)
FinalTransitionTick(f) ==
    LET scene == SceneAt(currentScene)
        elapsedTime == now - sceneStartTime
    IN  IF ~(scene.finalEmotion # "" /\ f.transitioned /\ ~f.finalTransitioned
             /\ elapsedTime >= scene.finalTransitionDelay)
        THEN f
        ELSE [f EXCEPT !.emotion = scene.finalEmotion,
                       !.intensity = 60000,
                       !.finalTransitioned = TRUE,
                       !.bio.currentEmotion = scene.finalEmotion,
                       !.engagement =
                           IF scene.finalEmotion = "neutral" THEN 70000 ELSE @,
                       !.cognitiveLoad =
                           IF scene.finalEmotion = "neutral" THEN 50000 ELSE @,
                       !.final = 1]

updateDemoScene(f) == FinalTransitionTick(FirstTransitionTick(f))

\* draw(), the webcam branch (sketch.js:1197-1273)
WebcamTick(f) ==
    LET webcamEmotion == f.bio.emotion
        f1 == IF ~(now - f.lastUpdate > WEBCAM_UPDATE_INTERVAL)
              THEN f
              ELSE [f EXCEPT
                     !.lastUpdate = now,
                     !.emotion = IF webcamEmotion # "" THEN webcamEmotion ELSE @,
                     !.intensity =
                         IF webcamEmotion = "" THEN @
                         ELSE IF f.emotion # webcamEmotion THEN 70000
                         ELSE Max(@, 70000),
                     !.engagement = IF f.bio.engagement # -1
                                    THEN Constrain(f.bio.engagement, 0, One)
                                    ELSE @,
                     !.attention = IF f.bio.attention # -1
                                   THEN Constrain(f.bio.attention, 0, One)
                                   ELSE @,
                     !.cognitiveLoad = IF f.bio.cognitiveLoad # -1
                                       THEN Constrain(f.bio.cognitiveLoad, 0, One)
                                       ELSE @]
    IN  [f1 EXCEPT !.intensity = Decayed(@)]

\* draw(), the branch of the autonomous mode (sketch.js:1275-1293)
AutonomousTick(f) == [f EXCEPT !.intensity = Decayed(@)]

\* draw(), the exchange with the webcam panel (sketch.js:1296-1334)
PanelSync(f) ==
    LET f1 == IF webcamControlsState
              THEN IF f.bio.emotion # "" /\ f.emotion # f.bio.emotion
                   THEN [f EXCEPT !.emotion = f.bio.emotion,
                                  !.intensity = 70000]
                   ELSE f
              ELSE [f EXCEPT !.bio.currentEmotion = f.emotion,
                             !.bio.emotion = f.emotion]
    IN  IF f1.bio.currentEmotion # "" /\ f1.bio.emotion = ""
        THEN [f1 EXCEPT !.bio.emotion = f1.bio.currentEmotion]
        ELSE IF f1.bio.emotion # "" /\ f1.bio.currentEmotion = ""
        THEN [f1 EXCEPT !.bio.currentEmotion = f1.bio.emotion]
        ELSE f1

\* draw(), the amplitudes: animated in the demo; in webcam mode set from the
\* emotion of the webcam update when one is due (sketch.js:1252) and then
\* varied; varied in the autonomous mode.  r stands for the four random
\* numbers of updateEEGWavesForEmotion, d for the variation of the frame.
FrameWaves(r, d) ==
    IF demoMode THEN AnimatedWaves(waves, d)
    ELSE IF webcamControlsState
    THEN VariedWaves(
            IF now - lastWebcamUpdate > WEBCAM_UPDATE_INTERVAL
            THEN EEGWavesForEmotion(WebcamTick(Frame).emotion, waves,
                                    r, r, r, r)
            ELSE waves,
            d)
    ELSE VariedWaves(waves, d)

\* one frame: draw()
draw ==
    /\ frames < MaxFrames
    /\ frames' = frames + 1
    /\ LET f == PanelSync(IF demoMode THEN updateDemoScene(Frame)
                          ELSE IF webcamControlsState THEN WebcamTick(Frame)
                          ELSE AutonomousTick(Frame))
       IN  /\ currentEmotion' = f.emotion
           /\ emotionIntensity' = f.intensity
           /\ engagementScore' = f.engagement
           /\ attentionScore' = f.attention
           /\ cognitiveLoad' = f.cognitiveLoad
           /\ bioSignalData' = f.bio
           /\ lastWebcamUpdate' = f.lastUpdate
           /\ transitioned' =
                 [transitioned EXCEPT ![currentScene] = f.transitioned]
           /\ finalTransitioned' =
                 [finalTransitioned EXCEPT ![currentScene] = f.finalTransitioned]
           /\ firstApplied' = firstApplied + f.first
           /\ finalApplied' = finalApplied + f.final
    /\ \E r \in RandomUnits, d \in WaveDrifts : waves' = FrameWaves(r, d)
    /\ lastOp' = Op("draw", "", 0)
    /\ UNCHANGED <<now, bufVars, demoMode, currentScene, sceneStartTime,
                   timers, webcamControlsState, isWebcamActive, startPending,
                   panelTimers,
                   pendingAnalysis, inFlight, observed,
                   isWaitingForResponse, chatRequests, triggers, chats>>

\* time passes to the next instant of Clock, once the frame loop has run and
\* every callback that was due has run
ClockAdvance(Clock) ==
    /\ frames >= 1
    /\ \A i \in DOMAIN timers : timers[i].due > now
    /\ \A i \in DOMAIN triggers : triggers[i] > now
    /\ \A i \in DOMAIN panelTimers.trend : panelTimers.trend[i] > now
    /\ \E t \in Clock :
          /\ t > now
          /\ \A u \in Clock : u > now => t <= u
          /\ now' = t
    /\ frames' = 0
    /\ lastOp' = Op("clock", "", 0)
    /\ UNCHANGED <<bufVars, sceneVars, stateVars, webcamVars, bioSignalData,
                   autoVars, chats>>

ScriptClockAdvance == ClockAdvance(ScriptClock)

ModeClockAdvance == ClockAdvance(ModeClock)

\* the scripted demo: its buttons, its timers, the frame loop and the chat
NextScript ==
    \/ toggleDemo
    \/ nextScene
    \/ resetDemo
    \/ SceneTimerFires
    \/ addChatMessage
    \/ draw
    \/ ScriptClockAdvance

SpecScript == Init /\ [][NextScript]_vars

-----------------------------------------------------------------------------
(* The webcam panel: external observation mode *)

\* emotionMetricsMap of forceGlobalEmotionUpdate, with its fallback to the
\* entry of neutral: <<engagement, attention, cognitiveLoad>>
EmotionMetrics(e) ==
    IF e = "happy" THEN <<85000, 75000, 25000>>
    ELSE IF e = "confused" THEN <<45000, 60000, 75000>>
    ELSE IF e = "frustrated" THEN <<35000, 40000, 85000>>
    ELSE IF e = "angry" THEN <<40000, 50000, 80000>>
    ELSE IF e = "sad" THEN <<30000, 35000, 60000>>
    ELSE IF e = "disgust" THEN <<35000, 40000, 70000>>
    ELSE IF e = "fear" THEN <<50000, 70000, 80000>>
    ELSE IF e = "surprise" THEN <<70000, 80000, 65000>>
    ELSE <<60000, 55000, 45000>>

\* metric * randomFactor() || 0.5, the factor per mille
Fluctuated(metric, factor) ==
    LET v == (metric * factor) \div 1000
    IN  IF v = 0 THEN 50000 ELSE v

\* variant of CognitiveMetricsForEmotion that reads the table of the webcam
\* panel, with its factor 0.95 + random * 0.1
CognitiveMetricsForEmotion_FromMap(e, r1, r2, r3) ==
    IF e \in {"happy", "neutral", "confused", "frustrated"}
    THEN <<Fluctuated(EmotionMetrics(e)[1], 950 + r1 \div 10),
           Fluctuated(EmotionMetrics(e)[2], 950 + r2 \div 10),
           Fluctuated(EmotionMetrics(e)[3], 950 + r3 \div 10)>>
    ELSE <<engagementScore, attentionScore, cognitiveLoad>>

\* updateCognitiveMetricsForEmotion(emotion) with its three random numbers:
\* <<engagementScore, attentionScore, cognitiveLoad>>
CognitiveMetricsForEmotion(e, r1, r2, r3) ==
    IF e = "happy"
    THEN <<Min(Drawn(80000, 15000, r1), 95000),
           Min(Drawn(75000, 15000, r2), 90000),
           Max(Drawn(20000, 20000, r3), 25000)>>
    ELSE IF e = "neutral"
    THEN <<Drawn(60000, 20000, r1), Drawn(55000, 25000, r2),
           Drawn(40000, 20000, r3)>>
    ELSE IF e = "confused"
    THEN <<Max(Drawn(40000, 20000, r1), 35000),
           Max(Drawn(50000, 15000, r2), 40000),
           Min(Drawn(70000, 20000, r3), 90000)>>
    ELSE IF e = "frustrated"
    THEN <<Max(Drawn(20000, 20000, r1), 25000),
           Max(Drawn(30000, 20000, r2), 35000),
           Min(Drawn(80000, 15000, r3), 95000)>>
    ELSE <<engagementScore, attentionScore, cognitiveLoad>>

\* WebcamPanel.stopWebcam()
stopWebcam ==
    /\ isWebcamActive
    /\ isWebcamActive' = FALSE
    /\ webcamControlsState' = FALSE
    /\ panelTimers' = StoppedTimers(panelTimers)
    /\ lastOp' = Op("stopWebcam", "", 0)
    /\ UNCHANGED <<now, bufVars, sceneVars, stateVars, lastWebcamUpdate,
                   startPending, pendingAnalysis, inFlight, observed,
                   bioSignalData, autoVars, frames, chats>>

\* WebcamPanel.startWebcam(), up to the call of getUserMedia
startWebcam ==
    /\ ~isWebcamActive
    /\ ~WindowDemoMode
    /\ startPending < MaxPendingStarts
    /\ pendingAnalysis' = FALSE
    /\ bioSignalData' = BioSignalData("neutral", "neutral", 50000, 50000, 50000)
    /\ startPending' = startPending + 1
    /\ lastOp' = Op("startWebcam", "", 0)
    /\ UNCHANGED <<now, bufVars, sceneVars, stateVars, webcamControlsState,
                   lastWebcamUpdate, isWebcamActive, inFlight, panelTimers,
                   observed,
                   autoVars, frames, chats>>

\* the Enable Webcam / Disable Webcam button
toggleWebcam ==
    \/ stopWebcam
    \/ startWebcam

\* the timers after setupFrameCapture() and startTrendTracking(): the capture
\* interval is replaced, one more trend timeout is pending
StartedTimers(pt) ==
    [pt EXCEPT !.capture = TRUE,
               !.trend = Append(@, now + TrendFetchDelay)]

\* getUserMedia resolves: the .then of startWebcam.  A session of bounded
\* length bounds the trend timers by itself.
WebcamStartSucceeds ==
    /\ startPending > 0
    /\ \/ lastOp.left >= 0
       \/ Len(panelTimers.trend) + panelTimers.intervals < MaxTrendTimers
    /\ startPending' = startPending - 1
    /\ panelTimers' = StartedTimers(panelTimers)
    /\ isWebcamActive' = TRUE
    /\ webcamControlsState' = TRUE
    /\ lastWebcamUpdate' = 0
    /\ observed' = FALSE
    /\ lastOp' = Op("webcamStarted", "", 0)
    /\ UNCHANGED <<now, bufVars, sceneVars, stateVars, pendingAnalysis,
                   inFlight, bioSignalData, autoVars, frames, chats>>

\* getUserMedia rejects: the .catch of startWebcam
WebcamStartFails ==
    /\ startPending > 0
    /\ startPending' = startPending - 1
    /\ lastOp' = Op("webcamFailed", "", 0)
    /\ UNCHANGED <<now, bufVars, sceneVars, stateVars, webcamControlsState,
                   lastWebcamUpdate, isWebcamActive, pendingAnalysis, inFlight,
                   panelTimers, observed, bioSignalData, autoVars, frames, chats>>

\* the capture interval sends a frame: sendFrameForAnalysis up to fetch()
sendFrameForAnalysis ==
    /\ isWebcamActive
    /\ ~pendingAnalysis
    /\ inFlight < MaxInFlight
    /\ pendingAnalysis' = TRUE
    /\ inFlight' = inFlight + 1
    /\ lastOp' = Op("sendFrame", "", 0)
    /\ UNCHANGED <<now, bufVars, sceneVars, stateVars, webcamControlsState,
                   lastWebcamUpdate, isWebcamActive, startPending,
                   panelTimers, observed,
                   bioSignalData, autoVars, frames, chats>>

\* the detector answers without a result, or the request fails
DetectorAnswersNothing ==
    /\ inFlight > 0
    /\ inFlight' = inFlight - 1
    /\ pendingAnalysis' = FALSE
    /\ lastOp' = Op("noResult", "", 0)
    /\ UNCHANGED <<now, bufVars, sceneVars, stateVars, webcamControlsState,
                   lastWebcamUpdate, isWebcamActive, startPending,
                   panelTimers, observed,
                   bioSignalData, autoVars, frames, chats>>

\* variant of DetectorResultIgnored that records the late answer
DetectorResultIgnored_Records(e, c) ==
    /\ ~webcamControlsState
    /\ Len(emotionBuffer) < MaxObserved
    /\ emotionBuffer' = BufferAfterAdd(emotionBuffer, e, c, now)
    /\ windowResults' = NoResult
    /\ snapshot' = NoSnapshot
    /\ bioSignalData' = [bioSignalData EXCEPT !.currentEmotion = e,
                                              !.emotion = e]
    /\ lastOp' = Op("lateResult", e, c)
    /\ UNCHANGED <<stateVars, waves>>

\* the detector answers with emotion e at confidence c percent while the
\* webcam does not control the state: only the panel's labels change
DetectorResultIgnored(e, c) ==
    /\ ~webcamControlsState
    /\ bioSignalData' = [bioSignalData EXCEPT !.currentEmotion = e,
                                              !.emotion = e]
    /\ lastOp' = Op("lateResult", e, c)
    /\ UNCHANGED <<bufVars, stateVars, waves>>

\* the same answer in webcam mode: forceGlobalEmotionUpdate(e, c / 100)
forceGlobalEmotionUpdate(e, c) ==
    /\ webcamControlsState
    /\ Len(emotionBuffer) < MaxObserved
    /\ emotionBuffer' = BufferAfterAdd(emotionBuffer, e, c, now)
    /\ windowResults' = NoResult
    /\ snapshot' = NoSnapshot
    /\ \E f1, f2, f3 \in RandomFactors :
          bioSignalData' =
             BioSignalData(e, e,
                           Fluctuated(EmotionMetrics(ToLowerCase(e))[1], f1),
                           Fluctuated(EmotionMetrics(ToLowerCase(e))[2], f2),
                           Fluctuated(EmotionMetrics(ToLowerCase(e))[3], f3))
    /\ \E r1, r2, r3 \in RandomUnits :
          LET m == CognitiveMetricsForEmotion(e, r1, r2, r3)
          IN  /\ engagementScore' = m[1]
              /\ attentionScore' = m[2]
              /\ cognitiveLoad' = m[3]
              \* the four random numbers of the amplitudes: r1, r2, r3, r1
              /\ waves' = EEGWavesForEmotion(e, waves, r1, r2, r3, r1)
    /\ lastOp' = Op("observe", e, c)
    /\ UNCHANGED <<currentEmotion, emotionIntensity>>

\* the detector answers with a result: the .then(data) of sendFrameForAnalysis
DetectorResult ==
    /\ inFlight > 0
    /\ inFlight' = inFlight - 1
    /\ pendingAnalysis' = FALSE
    /\ observed' = TRUE
    /\ \E e \in WebcamLabels, c \in WebcamConfidences :
          \/ DetectorResultIgnored(e, c)
          \/ forceGlobalEmotionUpdate(e, c)
    /\ UNCHANGED <<now, sceneVars, webcamControlsState, lastWebcamUpdate,
                   isWebcamActive, startPending, panelTimers,
                   isWaitingForResponse, chatRequests,
                   triggers, frames, chats>>

\* switching between the demo, the webcam and the autonomous mode
NextMode ==
    \/ toggleDemo
    \/ toggleWebcam
    \/ WebcamStartSucceeds
    \/ WebcamStartFails
    \/ sendFrameForAnalysis
    \/ DetectorAnswersNothing
    \/ DetectorResult
    \/ draw
    \/ ModeClockAdvance

SpecMode == Init /\ [][NextMode]_vars

-----------------------------------------------------------------------------
(* The chat and the autonomous mode *)

\* variant of handleSubmit that accepts a message while a request is pending
handleSubmit_WhileWaiting ==
    /\ chats < MaxSubmits
    /\ chats' = chats + 1
    /\ \E j \in ChatJitter : engagementScore' = Jittered(engagementScore, j)
    /\ emotionBuffer' = CleanedBuffer(emotionBuffer, now)
    /\ windowResults' = WinningEmotion(emotionBuffer', now)
    /\ snapshot' = BiometricSnapshot(windowResults', Len(emotionBuffer'),
                                     engagementScore', attentionScore,
                                     cognitiveLoad)
    /\ isWaitingForResponse' = TRUE
    /\ chatRequests' = chatRequests + 1
    /\ lastOp' = Op("submit", "", 0)
    /\ UNCHANGED <<now, sceneVars, currentEmotion, emotionIntensity,
                   attentionScore, cognitiveLoad, webcamVars, bioSignalData,
                   waves, triggers, frames>>

\* handleSubmit() with a non-empty message: the user's chat message, the
\* snapshot, the request to the tutor
handleSubmit ==
    /\ ~isWaitingForResponse
    /\ chats < MaxSubmits
    /\ chats' = chats + 1
    /\ \E j \in ChatJitter : engagementScore' = Jittered(engagementScore, j)
    /\ emotionBuffer' = CleanedBuffer(emotionBuffer, now)
    /\ windowResults' = WinningEmotion(emotionBuffer', now)
    /\ snapshot' = BiometricSnapshot(windowResults', Len(emotionBuffer'),
                                     engagementScore', attentionScore,
                                     cognitiveLoad)
    /\ isWaitingForResponse' = TRUE
    /\ chatRequests' = chatRequests + 1
    /\ lastOp' = Op("submit", "", 0)
    /\ UNCHANGED <<now, sceneVars, currentEmotion, emotionIntensity,
                   attentionScore, cognitiveLoad, webcamVars, bioSignalData,
                   waves, triggers, frames>>

\* the tutor answers with a message: the .then(data) of handleSubmit, which
\* schedules an autonomous trigger when neither the demo nor the webcam runs
TutorAnswers ==
    /\ chatRequests > 0
    /\ chatRequests' = chatRequests - 1
    /\ \E j \in ChatJitter : engagementScore' = Jittered(engagementScore, j)
    /\ IF ~demoMode /\ ~webcamControlsState
       THEN /\ Len(triggers) < MaxTriggers
            /\ triggers' = Append(triggers, now + 1500)
       ELSE UNCHANGED triggers
    /\ isWaitingForResponse' = FALSE
    /\ lastOp' = Op("answer", "", 0)
    /\ UNCHANGED <<now, bufVars, sceneVars, currentEmotion, emotionIntensity,
                   attentionScore, cognitiveLoad, webcamVars, bioSignalData,
                   waves, frames, chats>>

\* the tutor answers with an error, or with neither a message nor an error
TutorAnswersNothing ==
    /\ chatRequests > 0
    /\ chatRequests' = chatRequests - 1
    /\ isWaitingForResponse' = FALSE
    /\ lastOp' = Op("answerError", "", 0)
    /\ UNCHANGED <<now, bufVars, sceneVars, stateVars, webcamVars,
                   bioSignalData, waves, triggers, frames, chats>>

\* variant of ChatRequestFails that schedules an autonomous trigger
ChatRequestFails_Schedules ==
    /\ chatRequests > 0
    /\ chatRequests' = chatRequests - 1
    /\ \E j \in ChatJitter : engagementScore' = Jittered(engagementScore, j)
    /\ Len(triggers) < MaxTriggers
    /\ triggers' = Append(triggers, now + 1500)
    /\ isWaitingForResponse' = FALSE
    /\ lastOp' = Op("requestFailed", "", 0)
    /\ UNCHANGED <<now, bufVars, sceneVars, currentEmotion, emotionIntensity,
                   attentionScore, cognitiveLoad, webcamVars, bioSignalData,
                   waves, frames, chats>>

\* the request fails: the .catch of handleSubmit adds a chat message
ChatRequestFails ==
    /\ chatRequests > 0
    /\ chatRequests' = chatRequests - 1
    /\ \E j \in ChatJitter : engagementScore' = Jittered(engagementScore, j)
    /\ isWaitingForResponse' = FALSE
    /\ lastOp' = Op("requestFailed", "", 0)
    /\ UNCHANGED <<now, bufVars, sceneVars, currentEmotion, emotionIntensity,
                   attentionScore, cognitiveLoad, webcamVars, bioSignalData,
                   waves, triggers, frames, chats>>

\* triggerRandomStateChange() from `Only continue if the emotion actually
\* changed` on (sketch.js:3375-3400): the change to newEmotion, r the random
\* numbers of the metrics and the amplitudes
ChangedEmotion(newEmotion, r) ==
    LET m == CognitiveMetricsForEmotion(newEmotion, r, r, r)
    IN  /\ Len(emotionBuffer) < MaxBuf
        /\ emotionBuffer' = BufferAfterAdd(emotionBuffer, newEmotion, 75, now)
        /\ windowResults' = NoResult
        /\ snapshot' = NoSnapshot
        /\ currentEmotion' = newEmotion
        /\ emotionIntensity' = 90000
        /\ engagementScore' = m[1]
        /\ attentionScore' = m[2]
        /\ cognitiveLoad' = m[3]
        /\ waves' = EEGWavesForEmotion(newEmotion, waves, r, r, r, r)
        /\ bioSignalData' =
              [bioSignalData EXCEPT !.currentEmotion = newEmotion]

\* variant of triggerRandomStateChange without the return on an unchanged
\* emotion
triggerRandomStateChange_AlwaysApplies(random, r) ==
    LET newEmotion ==
            SelectedEmotion(TransitionProbabilities(currentEmotion), random,
                            0, currentEmotion)
    IN  IF SkipsRandomStateChange(demoMode, webcamControlsState)
        THEN /\ lastOp' = Op("trigger", "", 0)
             /\ UNCHANGED <<bufVars, stateVars, bioSignalData, waves>>
        ELSE /\ ChangedEmotion(newEmotion, r)
             /\ lastOp' = Op("trigger", newEmotion,
                             IF newEmotion = currentEmotion THEN 0 ELSE 75)

\* triggerRandomStateChange(), random the number drawn for the transition
\* (percent) and r the random numbers of the metrics and the amplitudes.
\* History: lastOp keeps the outcome drawn ("" when the call was skipped) and
\* the confidence recorded (0 when nothing was recorded).
triggerRandomStateChange(random, r) ==
    LET previousEmotion == currentEmotion
        newEmotion ==
            SelectedEmotion(TransitionProbabilities(currentEmotion), random,
                            0, currentEmotion)
    IN  IF SkipsRandomStateChange(demoMode, webcamControlsState)
        THEN /\ lastOp' = Op("trigger", "", 0)
             /\ UNCHANGED <<bufVars, stateVars, bioSignalData, waves>>
        ELSE IF newEmotion = previousEmotion
        THEN /\ lastOp' = Op("trigger", newEmotion, 0)
             /\ UNCHANGED <<bufVars, stateVars, bioSignalData, waves>>
        ELSE /\ ChangedEmotion(newEmotion, r)
             /\ lastOp' = Op("trigger", newEmotion, 75)

\* a timeout set by the tutor's answer comes due and runs
TriggerFires ==
    /\ triggers # <<>>
    /\ Head(triggers) <= now
    /\ triggers' = Tail(triggers)
    /\ \E random \in TransitionDraws, r \in RandomUnits :
          triggerRandomStateChange(random, r)
    /\ UNCHANGED <<now, sceneVars, webcamVars, isWaitingForResponse,
                   chatRequests, frames, chats>>

AutoClockAdvance == ClockAdvance(AutoClock)

\* the autonomous mode: the chat with the tutor, the triggers it schedules,
\* the frame loop, and the switches into the demo and the webcam mode
NextAuto ==
    \/ handleSubmit
    \/ TutorAnswers
    \/ TutorAnswersNothing
    \/ ChatRequestFails
    \/ TriggerFires
    \/ toggleDemo
    \/ toggleWebcam
    \/ WebcamStartSucceeds
    \/ draw
    \/ AutoClockAdvance

SpecAuto == Init /\ [][NextAuto]_vars

\* the request of a submission settles: an answer with a message, an answer
\* without one, or a failure
ChatRequestSettles ==
    \/ TutorAnswers
    \/ TutorAnswersNothing
    \/ ChatRequestFails

\* the chat alone in the autonomous mode: submissions, what becomes of their
\* requests, the triggers, the frame loop
NextChat ==
    \/ handleSubmit
    \/ TutorAnswers
    \/ TutorAnswersNothing
    \/ ChatRequestFails
    \/ TriggerFires
    \/ draw
    \/ AutoClockAdvance

\* every fetch() promise settles: the browser resolves or rejects it
SpecChat == Init /\ [][NextChat]_vars /\ WF_vars(ChatRequestSettles)

AllClockAdvance == ClockAdvance(AllClock)

\* a session of at most MaxSteps operations
InitAll == Started([NoOp EXCEPT !.left = MaxSteps])

WithinSteps == lastOp.left > 0

\* every operation of the controller together, in a bounded session
NextAll ==
    \/ WithinSteps /\ toggleDemo
    \/ WithinSteps /\ nextScene
    \/ WithinSteps /\ resetDemo
    \/ WithinSteps /\ SceneTimerFires
    \/ WithinSteps /\ toggleWebcam
    \/ WithinSteps /\ WebcamStartSucceeds
    \/ WithinSteps /\ WebcamStartFails
    \/ WithinSteps /\ sendFrameForAnalysis
    \/ WithinSteps /\ DetectorAnswersNothing
    \/ WithinSteps /\ DetectorResult
    \/ WithinSteps /\ handleSubmit
    \/ WithinSteps /\ TutorAnswers
    \/ WithinSteps /\ TutorAnswersNothing
    \/ WithinSteps /\ ChatRequestFails
    \/ WithinSteps /\ TriggerFires
    \/ WithinSteps /\ draw
    \/ WithinSteps /\ AllClockAdvance

SpecAll == InitAll /\ [][NextAll]_vars

\* a session of at most MaxPureSteps operations
InitPure == Started([NoOp EXCEPT !.left = MaxPureSteps])

\* the scorer and the snapshot called while the modes change the live state
NextPure ==
    \/ WithinSteps /\ toggleDemo
    \/ WithinSteps /\ toggleWebcam
    \/ WithinSteps /\ WebcamStartSucceeds
    \/ WithinSteps /\ sendFrameForAnalysis
    \/ WithinSteps /\ DetectorResult
    \/ WithinSteps /\ selectWinningEmotion
    \/ WithinSteps /\ captureBiometricSnapshot
    \/ WithinSteps /\ draw
    \/ WithinSteps /\ ModeClockAdvance

SpecPure == InitPure /\ [][NextPure]_vars

HopClockAdvance == ClockAdvance(HopClock)

\* a session of at most MaxHopSteps operations
InitHop == Started([NoOp EXCEPT !.left = MaxHopSteps])

\* the demo shows its last scene
AtLastScene == currentScene = Len(demoScenes) - 1

\* the scripted demo clicked through at speed by a user who starts it, steps
\* to the last scene and resets it there: its buttons, its timers and the
\* frame loop, in a bounded session
NextHop ==
    \/ WithinSteps /\ ~demoMode /\ toggleDemo
    \/ WithinSteps /\ nextScene
    \/ WithinSteps /\ AtLastScene /\ resetDemo
    \/ WithinSteps /\ SceneTimerFires
    \/ WithinSteps /\ draw
    \/ WithinSteps /\ HopClockAdvance

SpecHop == InitHop /\ [][NextHop]_vars

\* a session of at most MaxIndexSteps operations
InitIndex == Started([NoOp EXCEPT !.left = MaxIndexSteps])

\* the buttons of the demo pressed in any order, the timers of its scenes and
\* the frame loop
NextIndex ==
    \/ WithinSteps /\ toggleDemo
    \/ WithinSteps /\ nextScene
    \/ WithinSteps /\ nextSceneOnLast
    \/ WithinSteps /\ resetDemo
    \/ WithinSteps /\ SceneTimerFires
    \/ WithinSteps /\ draw
    \/ WithinSteps /\ HopClockAdvance

SpecIndex == InitIndex /\ [][NextIndex]_vars

\* one call of updateEEGWavesForEmotion(emotion); lastOp.confidence keeps the
\* alpha amplitude the call found
updateEEGWavesForEmotion ==
    /\ \E e \in WaveEmotions, r1 \in WaveRandoms, r2 \in WaveRandoms,
          r3 \in WaveRandoms, r4 \in WaveRandoms :
          /\ waves' = EEGWavesForEmotion(e, waves, r1, r2, r3, r4)
          /\ lastOp' = Op("waves", e, waves.alpha)
    /\ UNCHANGED <<now, bufVars, sceneVars, stateVars, webcamVars,
                   bioSignalData, isWaitingForResponse, chatRequests,
                   triggers, frames, chats>>

\* the wave mapping on its own, called with every label and every draw
NextWaves == updateEEGWavesForEmotion

SpecWaves == Init /\ [][NextWaves]_vars

\* the first timeout of startTrendTracking comes due (part_003:1079-1086):
\* fetchEmotionTrends() sends its request, whose answer is not followed
\* here, and the interval of 9 seconds is started
TrendTimerFires ==
    /\ panelTimers.trend # <<>>
    /\ Head(panelTimers.trend) <= now
    /\ panelTimers' = [panelTimers EXCEPT !.trend = Tail(@),
                                          !.intervals = @ + 1]
    /\ lastOp' = Op("trendTimer", "", 0)
    /\ UNCHANGED <<now, bufVars, sceneVars, stateVars, webcamControlsState,
                   lastWebcamUpdate, isWebcamActive, startPending,
                   pendingAnalysis, inFlight, observed, bioSignalData,
                   autoVars, frames, chats>>

PanelClockAdvance == ClockAdvance(PanelClock)

\* a session of at most MaxPanelSteps operations
InitPanel == Started([NoOp EXCEPT !.left = MaxPanelSteps])

\* the webcam enabled and disabled, by its button or by the start of the
\* demo, and the timers of the panel, in a bounded session
NextPanel ==
    \/ WithinSteps /\ toggleWebcam
    \/ WithinSteps /\ WebcamStartSucceeds
    \/ WithinSteps /\ WebcamStartFails
    \/ WithinSteps /\ TrendTimerFires
    \/ WithinSteps /\ toggleDemo
    \/ WithinSteps /\ draw
    \/ WithinSteps /\ PanelClockAdvance

SpecPanel == InitPanel /\ [][NextPanel]_vars

-----------------------------------------------------------------------------
(* Claims about the observation buffer and the scorer *)

IsNeutralLabel(e) == e \in {"neutral", "Neutral"}

\* the indices of buf whose observation is inside the window at time t
InWindow(buf, t) == {i \in DOMAIN buf : buf[i].timestamp >= t - 5000}

\* the k-th smallest element of a set of indices
KthOf(S, k) == CHOOSE i \in S : Cardinality({j \in S : j <= i}) = k

\* C1 (window eviction): a step of cleanEmotionBuffer at time `now` leaves no
\* observation with timestamp < now - 5000, and leaves exactly the
\* observations with timestamp >= now - 5000, in their original order.
C1_WindowEviction ==
    [][lastOp'.op = "clean" =>
        LET kept == InWindow(emotionBuffer, now)
        IN  /\ \A i \in DOMAIN emotionBuffer' :
                 emotionBuffer'[i].timestamp >= now - 5000
            /\ Len(emotionBuffer') = Cardinality(kept)
            /\ \A k \in 1..Len(emotionBuffer') :
                 emotionBuffer'[k] = emotionBuffer[KthOf(kept, k)]]_vars

\* C1 witness: a clean at t = 5001 has just evicted an observation recorded at
\* t = 0 (the buffer is shorter than before) and kept a younger one.
C1_Witness ==
    /\ lastOp.op = "clean"
    /\ now = 5001
    /\ lastOp.before > Len(emotionBuffer)
    /\ Len(emotionBuffer) >= 1

\* C2 (neutral filtering): record(e, c) leaves the buffer as it was exactly
\* when e is neutral and c < 0.9; otherwise the observation (e, c, now) is the
\* last entry of the buffer afterwards.
C2_NeutralFiltering ==
    [][lastOp'.op = "record" =>
        LET e == lastOp'.emotion
            c == lastOp'.confidence
            dropped == IsNeutralLabel(e) /\ c < 90
        IN  /\ dropped => emotionBuffer' = emotionBuffer
            /\ ~dropped =>
                 /\ emotionBuffer' # <<>>
                 /\ emotionBuffer'[Len(emotionBuffer')] =
                       [emotion |-> e, confidence |-> c, timestamp |-> now]
                 /\ Len(emotionBuffer') =
                       Cardinality(InWindow(emotionBuffer, now)) + 1]_vars

\* C2 witness: record(neutral, 0.5) on the empty buffer has just been called
\* and a read yields zero entries.
C2_Witness ==
    /\ lastOp.op = "record"
    /\ lastOp.emotion = "neutral"
    /\ lastOp.confidence = 50
    /\ emotionBuffer = <<>>

\* C2, second case: record(neutral, 0.9), at the threshold, on the empty buffer
\* yields one entry.
C2_WitnessKept ==
    /\ lastOp.op = "record"
    /\ lastOp.emotion = "neutral"
    /\ lastOp.confidence = 90
    /\ lastOp.before = 0
    /\ Len(emotionBuffer) = 1

\* composite score of one observation as the specification words it:
\* confidence x (1 + 0.05 x (1 - age / 5000)) x (0.9 if neutral), in 1/ScoreOne
SpecScoreOf(entry, t) ==
    entry.confidence * (100000 + (5000 - (t - entry.timestamp)))
       * (IF IsNeutralLabel(entry.emotion) THEN 9 ELSE 10)

RECURSIVE SpecSumOver(_, _, _)
SpecSumOver(buf, S, t) ==
    IF S = {} THEN 0
    ELSE LET i == CHOOSE j \in S : TRUE
         IN  SpecScoreOf(buf[i], t) + SpecSumOver(buf, S \ {i}, t)

\* summed composite score of a label over all buffered observations
SpecLabelScore(buf, label, t) ==
    SpecSumOver(buf, {i \in DOMAIN buf : buf[i].emotion = label}, t)

C5_ConfidenceClamped ==
    \A i \in DOMAIN emotionBuffer :
        emotionBuffer[i].confidence >= 0 /\ emotionBuffer[i].confidence <= 100

-----------------------------------------------------------------------------
(* Claims about the scripted demo and the modes *)

\* C6 (stale scripted timers are dropped): a scripted transition scheduled
\* when a scene was entered, running after that stay is over (after
\* nextScene, resetDemo or the end of the demo), changes neither
\* currentEmotion nor the intensity nor any metric.
C6_StaleTimersDropped ==
    [][lastOp'.op = "staleTimer" => UNCHANGED stateVars]_vars

\* C7 (one-shot scripted transitions): during one stay in a scene the effects
\* of its first transition are applied at most once and those of its final
\* transition at most once, the per-frame tick and the timer scheduled at
\* entry counted together.
C7_OneShotTransitions ==
    /\ firstApplied <= 1
    /\ finalApplied <= 1

\* the active scene of the demo is one whose transitionTo is its own emotion
InSameLabelScene ==
    /\ demoMode
    /\ SceneAt(currentScene).transitionTo # ""
    /\ SceneAt(currentScene).transitionTo = SceneAt(currentScene).emotion

\* C8 (scripted same-label transition): in a scene whose transitionTo equals
\* its starting emotion, the tick that finds transitionDelay elapsed leaves
\* currentEmotion at the starting emotion, raises cognitiveLoad by 0.15 (cap
\* 0.95) and lowers engagement by 0.1 (floor 0.3) and attention by 0.1 (floor
\* 0.4); every later tick of the stay leaves the three metrics alone.
C8_SameLabelTransition ==
    [][(lastOp'.op = "draw" /\ InSameLabelScene) =>
        IF transitioned[currentScene]
        THEN UNCHANGED <<engagementScore, attentionScore, cognitiveLoad>>
        ELSE (now - sceneStartTime >= SceneAt(currentScene).transitionDelay) =>
                /\ currentEmotion' = SceneAt(currentScene).emotion
                /\ cognitiveLoad' = Min(cognitiveLoad + 15000, 95000)
                /\ engagementScore' = Max(engagementScore - 10000, 30000)
                /\ attentionScore' = Max(attentionScore - 10000, 40000)]_vars

\* C9 (mode switches preserve state): the steps that stop the demo, enable the
\* webcam mode or disable it leave currentEmotion, intensity, engagement,
\* attention and cognitiveLoad as they were, and once the webcam mode is on no
\* frame changes the emotion or a metric before a detector result has arrived.
C9_ModeSwitchesPreserveState ==
    [][/\ lastOp'.op \in {"stopDemo", "startWebcam", "webcamStarted",
                          "stopWebcam"}
          => UNCHANGED stateVars
       /\ (lastOp'.op = "draw" /\ ~demoMode /\ webcamControlsState /\ ~observed)
          => UNCHANGED <<currentEmotion, engagementScore, attentionScore,
                         cognitiveLoad>>]_vars

\* C10 (mode exclusivity): the demo mode and the webcam mode are never active
\* together.
C10_ModeExclusivity == ~(demoMode /\ webcamControlsState)

-----------------------------------------------------------------------------
(* Claims about the autonomous mode, the webcam mode and the snapshot *)

CoreLabels == {"happy", "neutral", "confused", "frustrated"}

\* the bands of the shared table of the specification, in 1/One:
\* <<engagement low, high, attention low, high, cognitiveLoad low, high>>
SpecBand(e) ==
    IF e = "happy" THEN <<80000, 95000, 75000, 90000, 20000, 45000>>
    ELSE IF e = "neutral" THEN <<60000, 80000, 55000, 80000, 40000, 60000>>
    ELSE IF e = "confused" THEN <<35000, 60000, 40000, 65000, 70000, 90000>>
    ELSE <<20000, 45000, 30000, 55000, 80000, 95000>>

InSpecBand(e, eng, att, cog) ==
    /\ SpecBand(e)[1] <= eng /\ eng <= SpecBand(e)[2]
    /\ SpecBand(e)[3] <= att /\ att <= SpecBand(e)[4]
    /\ SpecBand(e)[5] <= cog /\ cog <= SpecBand(e)[6]

C11_WitnessDemo ==
    /\ lastOp.op = "trigger"
    /\ demoMode

\* C12 (arrival in webcam mode): while the webcam controls the state (and the
\* demo is off) every detector result is passed to addEmotionToBuffer, and
\* after the frame that follows it currentEmotion is the label that arrived
\* and the intensity is 0.7.
C12_ExternalArrival ==
    [][/\ lastOp'.op = "observe" =>
             emotionBuffer' = BufferAfterAdd(emotionBuffer, lastOp'.emotion,
                                             lastOp'.confidence, now)
       /\ (lastOp.op = "observe" /\ lastOp'.op = "draw" /\ ~demoMode) =>
             /\ currentEmotion' = lastOp.emotion
             /\ emotionIntensity' = 70000]_vars

\* the label part of C12 alone: after the frame that follows an arrival
\* currentEmotion is the label that arrived
C12_LabelFollowsArrival ==
    [][(lastOp.op = "observe" /\ lastOp'.op = "draw" /\ ~demoMode) =>
          currentEmotion' = lastOp.emotion]_vars

\* C13 (the snapshot is a fresh aggregation): the emotion of the snapshot
\* taken when a message is submitted is the result of the composite scorer
\* over the window at that time: neutral for an empty window, otherwise a
\* buffered label whose summed composite score no buffered label exceeds,
\* whatever currentEmotion is.
C13_FreshAggregation ==
    lastOp.op = "submit" =>
        /\ emotionBuffer = CleanedBuffer(emotionBuffer, now)
        /\ IF emotionBuffer = <<>>
           THEN snapshot.name = "neutral"
           ELSE /\ \E i \in DOMAIN emotionBuffer :
                      emotionBuffer[i].emotion = snapshot.name
                /\ \A i \in DOMAIN emotionBuffer :
                      SpecLabelScore(emotionBuffer, snapshot.name, now)
                        >= SpecLabelScore(emotionBuffer,
                                          emotionBuffer[i].emotion, now)

\* C13 witness: a message has just been submitted while the window holds an
\* observation and the scorer's result differs from the live currentEmotion.
C13_Witness ==
    /\ lastOp.op = "submit"
    /\ emotionBuffer # <<>>
    /\ snapshot.name # currentEmotion

\* C14 (metric clamping): in every reachable state engagement, attention and
\* cognitiveLoad are within [0, 1] and the intensity is within [0.2, 1.0].
C14_MetricClamping ==
    /\ engagementScore >= 0 /\ engagementScore <= One
    /\ attentionScore >= 0 /\ attentionScore <= One
    /\ cognitiveLoad >= 0 /\ cognitiveLoad <= One
    /\ emotionIntensity >= 20000 /\ emotionIntensity <= One

\* C14 witness: an autonomous trigger has raised engagement to the top of the
\* band of happy and the chat message of the next submission has pushed it
\* against the cap of 0.95.
C14_Witness ==
    /\ lastOp.op = "submit"
    /\ currentEmotion = "happy"
    /\ emotionBuffer # <<>>
    /\ engagementScore = 95000

\* C15 (the autonomous mode records its changes): every autonomous trigger
\* that changes currentEmotion to a label E leaves in the buffer an
\* observation labelled E with the time of the change, neutral included.
C15_TriggerRecordsChange ==
    [][(lastOp'.op = "trigger" /\ currentEmotion' # currentEmotion) =>
          \E i \in DOMAIN emotionBuffer' :
             /\ emotionBuffer'[i].emotion = currentEmotion'
             /\ emotionBuffer'[i].timestamp = now]_vars

\* the part of C15 that leaves neutral out
C15_TriggerRecordsNonNeutral ==
    [][(lastOp'.op = "trigger" /\ currentEmotion' # currentEmotion
        /\ currentEmotion' # "neutral") =>
          /\ emotionBuffer' # <<>>
          /\ emotionBuffer'[Len(emotionBuffer')] =
                [emotion |-> currentEmotion', confidence |-> 75,
                 timestamp |-> now]]_vars

\* C16 (autonomous no-op): when the outcome drawn from the transition table
\* is the current emotion, the trigger leaves currentEmotion, the intensity,
\* engagement, attention, cognitiveLoad, the wave amplitudes and the buffer
\* unchanged.
C16_TriggerNoOp ==
    [][(/\ lastOp'.op = "trigger"
        /\ ~demoMode /\ ~webcamControlsState
        /\ lastOp'.emotion = currentEmotion) =>
          UNCHANGED <<stateVars, waves, emotionBuffer>>]_vars

\* C16 witness: a trigger has just run in the autonomous mode from happy and
\* drawn happy.
C16_Witness ==
    /\ lastOp.op = "trigger"
    /\ lastOp.emotion = "happy"
    /\ lastOp.confidence = 0
    /\ currentEmotion = "happy"
    /\ ~demoMode /\ ~webcamControlsState

\* C17 (autonomous jump): every autonomous trigger that changes the emotion
\* to E sets the intensity to 0.9 and engagement, attention and cognitiveLoad
\* each inside the band of E in the shared table, whatever the random
\* offset.
C17_TriggerJump ==
    [][(lastOp'.op = "trigger" /\ currentEmotion' # currentEmotion) =>
          /\ currentEmotion' \in CoreLabels
          /\ emotionIntensity' = 90000
          /\ InSpecBand(currentEmotion', engagementScore', attentionScore',
                        cognitiveLoad')]_vars

\* C17 witness: a trigger has just changed the emotion from happy to neutral
\* with the greatest random offset.
C17_Witness ==
    /\ lastOp.op = "trigger"
    /\ lastOp.emotion = "neutral"
    /\ currentEmotion = "neutral"
    /\ emotionIntensity = 90000
    /\ engagementScore = Drawn(60000, 20000, 999)

\* C18 (metrics in webcam mode): after a detector result labelled with one of
\* the four core emotions has arrived in webcam mode and the next frame has
\* run, engagement, attention and cognitiveLoad each lie inside that
\* emotion's band of the shared table, whatever the +/-5% factor.
C18_ExternalMetricsInBand ==
    [][(/\ lastOp.op = "observe"
        /\ lastOp.emotion \in CoreLabels
        /\ lastOp'.op = "draw"
        /\ ~demoMode) =>
          InSpecBand(lastOp.emotion, engagementScore', attentionScore',
                     cognitiveLoad')]_vars

\* the action is one in which the final transition of a scripted scene takes
\* effect, by its timer or by the per-frame tick
FinalTakesEffect ==
    \/ lastOp'.op \in {"timer", "staleTimer"} /\ lastOp'.emotion = "final"
    \/ /\ lastOp'.op = "draw"
       /\ ~finalTransitioned[currentScene]
       /\ finalTransitioned'[currentScene]

\* C20 (two-hop ordering): while the demo is in a scene that declares
\* finalEmotion, the final transition takes effect only after the first
\* transition of this stay has taken effect and only once
\* finalTransitionDelay has elapsed since the scene was entered, whatever the
\* order of ticks and timers.
C20_TwoHopOrdering ==
    [][(/\ demoMode
        /\ SceneAt(currentScene).finalEmotion # ""
        /\ FinalTakesEffect) =>
          /\ firstApplied' >= 1
          /\ now - sceneStartTime >=
                SceneAt(currentScene).finalTransitionDelay]_vars

\* the sum of the weights of one row of the transition table, in percent
RECURSIVE WeightSum(_)
WeightSum(entries) ==
    IF entries = <<>> THEN 0
    ELSE Head(entries)[2] + WeightSum(Tail(entries))

\* every value of the draw, in percent of [0,1)
AllDraws == 0 .. 99

\* C19 (transition table): whichever of the four core emotions is current,
\* the weights of its row of the autonomous transition table sum to exactly
\* 1.0, and every draw in [0,1) is caught by one of the row's keys, each of
\* which is one of the four core emotions.
C19_TransitionTableValid ==
    currentEmotion \in CoreLabels =>
      /\ WeightSum(TransitionProbabilities(currentEmotion)) = 100
      /\ \A random \in AllDraws :
            SelectedEmotion(TransitionProbabilities(currentEmotion), random,
                            0, "") \in CoreLabels

\* a trigger whose draw fell in the last range of the happy row's neighbours
\* and moved the state to frustrated
C19_Witness ==
    /\ lastOp.op = "trigger" /\ lastOp.confidence = 75
    /\ lastOp.emotion = "frustrated" /\ currentEmotion = "frustrated"

-----------------------------------------------------------------------------
(* Claims about scene entry, the waves, the scorer and the webcam resources *)

\* C21 (scene entry): every entry into a scripted scene, by starting the
\* demo, by nextScene or by resetDemo, sets currentEmotion to the scene's
\* starting emotion, the intensity to 0.5 and sceneStartTime to the current
\* time, so that the elapsed scene time is 0 at entry.
C21_SceneEntry ==
    [][lastOp'.op \in {"startDemo", "nextScene", "resetDemo"} =>
          /\ currentEmotion' = SceneAt(currentScene').emotion
          /\ emotionIntensity' = 50000
          /\ sceneStartTime' = now']_vars

\* the part of C21 the three entries do share: the starting emotion and the
\* intensity 0.5
C21_EntryEmotion ==
    [][lastOp'.op \in {"startDemo", "nextScene", "resetDemo"} =>
          /\ currentEmotion' = SceneAt(currentScene').emotion
          /\ emotionIntensity' = 50000]_vars

\* the scene of the end-to-end scenario: index 2, declared with the starting
\* emotion confused, engagement 0.4, cognitiveLoad 0.8 and transitionTo confused
ScenarioScene == 2

\* C22 (end-to-end scripted scenario): entering the scene declared confused /
\* engagement 0.4 / cognitiveLoad 0.8 gives currentEmotion = confused,
\* engagement 0.4 (up to the +/-0.05 of the scene's chat message) and
\* cognitiveLoad 0.8 whatever the metrics were before; the tick that finds
\* the delay elapsed leaves currentEmotion at confused, cognitiveLoad above
\* 0.8 and at most 0.95, and engagement below 0.4 and at least 0.3.
C22_ConfusedScenario ==
    [][/\ (lastOp'.op = "nextScene" /\ currentScene' = ScenarioScene) =>
            /\ currentEmotion' = "confused"
            /\ engagementScore' >= 35000 /\ engagementScore' <= 45000
            /\ cognitiveLoad' = 80000
       /\ (/\ lastOp'.op = "draw"
           /\ demoMode
           /\ currentScene = ScenarioScene
           /\ ~transitioned[ScenarioScene]
           /\ now - sceneStartTime >= SceneAt(ScenarioScene).transitionDelay) =>
            /\ currentEmotion' = "confused"
            /\ cognitiveLoad' > 80000 /\ cognitiveLoad' <= 95000
            /\ engagementScore' < 40000 /\ engagementScore' >= 30000]_vars

\* the place of a core label in the order of mental effort the waves show
EffortRank(e) ==
    IF e = "happy" THEN 1
    ELSE IF e = "neutral" THEN 2
    ELSE IF e = "confused" THEN 3
    ELSE IF e = "frustrated" THEN 4
    ELSE 0

\* two calls of the wave mapping in a row, the second for a core label of
\* higher effort than the first
RisingEffort ==
    /\ lastOp.op = "waves" /\ lastOp'.op = "waves"
    /\ EffortRank(lastOp.emotion) >= 1
    /\ EffortRank(lastOp.emotion) < EffortRank(lastOp'.emotion)

\* C23 as stated (wave ordering): for every value of the random numbers,
\* beta(frustrated) > beta(confused) > beta(neutral) > beta(happy) and
\* alpha(happy) > alpha(neutral) > alpha(confused) > alpha(frustrated).
C23_WaveOrderingStrict ==
    [][RisingEffort => /\ waves'.beta > waves.beta
                       /\ waves'.alpha < waves.alpha]_vars

\* C23 (wave ordering), amended: for every value of the random numbers beta
\* never decreases and alpha never increases from happy to neutral to
\* confused to frustrated; two labels can only tie where their ranges touch,
\* at beta 0.5 (happy, neutral), beta 0.9 (confused, frustrated) and alpha
\* 0.3 (frustrated, confused).
C23_WaveOrdering ==
    [][RisingEffort =>
          /\ waves'.beta >= waves.beta
          /\ waves'.alpha <= waves.alpha
          /\ waves'.beta = waves.beta => waves.beta \in {50000, 90000}
          /\ waves'.alpha = waves.alpha => waves.alpha = 30000]_vars

\* the mapping for frustrated has drawn the top of its alpha range right after
\* a call that left alpha at 0.3, the bottom of the range of confused
C23_Witness ==
    /\ lastOp.op = "waves" /\ lastOp.emotion = "frustrated"
    /\ lastOp.confidence = 30000
    /\ waves.alpha = 30000

\* a neutral and a happy observation of the buffer with the same confidence
\* (> 0) and the same timestamp
TwinPair(i, j) ==
    /\ ToLowerCase(emotionBuffer[i].emotion) = "neutral"
    /\ emotionBuffer[j].emotion = "happy"
    /\ emotionBuffer[i].confidence = emotionBuffer[j].confidence
    /\ emotionBuffer[i].confidence > 0
    /\ emotionBuffer[i].timestamp = emotionBuffer[j].timestamp

\* C24 (neutral penalty): of two buffered observations with the same
\* confidence (> 0) and the same timestamp, one neutral and one happy, the
\* happy one contributes strictly more to the per-label scores: the neutral
\* contribution is 0.9 times the happy one.
C24_NeutralPenalty ==
    \A i \in DOMAIN emotionBuffer, j \in DOMAIN emotionBuffer :
        TwinPair(i, j) =>
            /\ EntryScore(emotionBuffer[j], now) >
                  EntryScore(emotionBuffer[i], now)
            /\ 10 * EntryScore(emotionBuffer[i], now) =
                  9 * EntryScore(emotionBuffer[j], now)

\* the scorer has just run on a buffer that holds such a pair
C24_Witness ==
    /\ lastOp.op = "select"
    /\ \E i \in DOMAIN emotionBuffer, j \in DOMAIN emotionBuffer :
          TwinPair(i, j)

\* two observations of the buffer with the same label and the same confidence
\* (> 0), the first at least as recent as the second
SameButOlder(i, j) ==
    /\ emotionBuffer[i].emotion = emotionBuffer[j].emotion
    /\ emotionBuffer[i].confidence = emotionBuffer[j].confidence
    /\ emotionBuffer[i].confidence > 0
    /\ emotionBuffer[i].timestamp >= emotionBuffer[j].timestamp

\* the composite score of a non-neutral observation of confidence c (percent)
\* under a recency factor of f hundredths
ScoreAt(c, f) == c * f * (ScoreOne \div 10000)

\* C25 (recency boost): the recency factor is 1.05 at age 0 and 1.0 at age
\* EMOTION_WINDOW_SIZE and does not increase with the age in between: of two
\* buffered observations with the same label and confidence (> 0) the more
\* recent never contributes less, and contributes strictly more when the
\* ages are 0 and EMOTION_WINDOW_SIZE.
C25_RecencyBoost ==
    /\ \A i \in DOMAIN emotionBuffer :
          LET entry == emotionBuffer[i]
          IN  ToLowerCase(entry.emotion) # "neutral" =>
                /\ now - entry.timestamp = 0 =>
                      EntryScore(entry, now) = ScoreAt(entry.confidence, 105)
                /\ now - entry.timestamp = EMOTION_WINDOW_SIZE =>
                      EntryScore(entry, now) = ScoreAt(entry.confidence, 100)
    /\ \A i \in DOMAIN emotionBuffer, j \in DOMAIN emotionBuffer :
          SameButOlder(i, j) =>
            /\ EntryScore(emotionBuffer[i], now) >=
                  EntryScore(emotionBuffer[j], now)
            /\ (/\ now - emotionBuffer[i].timestamp = 0
                /\ now - emotionBuffer[j].timestamp = EMOTION_WINDOW_SIZE) =>
                  EntryScore(emotionBuffer[i], now) >
                     EntryScore(emotionBuffer[j], now)

\* the scorer has just run on a buffer that holds the same observation at age
\* 0 and at age EMOTION_WINDOW_SIZE
C25_Witness ==
    /\ lastOp.op = "select"
    /\ \E i \in DOMAIN emotionBuffer, j \in DOMAIN emotionBuffer :
          /\ SameButOlder(i, j)
          /\ now - emotionBuffer[i].timestamp = 0
          /\ now - emotionBuffer[j].timestamp = EMOTION_WINDOW_SIZE

\* some timer started by enabling the webcam is scheduled
PanelTimerScheduled ==
    \/ panelTimers.capture
    \/ panelTimers.trend # <<>>
    \/ panelTimers.intervals > 0

\* C26 (webcam resources released): once stopWebcam has completed, by the
\* Disable Webcam button or by the start of the demo, none of the timers
\* started by enabling the webcam remains scheduled: neither the frame-capture
\* interval nor the trend-tracking timeout nor the trend-tracking interval.
C26_TimersReleased ==
    [][(lastOp'.op = "stopWebcam" \/ (lastOp'.op = "startDemo" /\ isWebcamActive))
          => ~PanelTimerScheduled']_vars

\* the part of C26 that holds: stopWebcam leaves no frame-capture interval
C26_CaptureReleased ==
    [][(lastOp'.op = "stopWebcam" \/ (lastOp'.op = "startDemo" /\ isWebcamActive))
          => ~panelTimers'.capture]_vars

\* the mapping as the label table words it, on the label exactly as given
StatedDisplay(e) ==
    IF e \in {"angry", "sad", "disgust", "fear"} THEN "frustrated"
    ELSE IF e = "surprise" THEN "confused"
    ELSE IF e = "joy" THEN "happy"
    ELSE IF e \in CoreLabels THEN e
    ELSE "neutral"

\* the latest record() appended its observation
Appended ==
    /\ lastOp.op = "record"
    /\ ~(ToLowerCase(lastOp.emotion) = "neutral"
         /\ lastOp.confidence < NeutralThresholdPct)

\* C27 as stated: every label string is shown as a core label, following the
\* table on the string exactly as given (angry, sad, disgust, fear as
\* frustrated, surprise as confused, joy as happy, a core label as itself, any
\* other string as neutral), and the buffer keeps the raw label.
C27_LabelNormalizationExact ==
    lastOp.op = "record" =>
        /\ DisplayedEmotion(lastOp.emotion) \in CoreLabels
        /\ DisplayedEmotion(lastOp.emotion) = StatedDisplay(lastOp.emotion)
        /\ Appended =>
              emotionBuffer[Len(emotionBuffer)].emotion = lastOp.emotion

\* C27 (amended): every label string is shown as a core label, following the
\* table on the lower-cased string, so that a capitalised label is shown like
\* its lower-case spelling; no label is rejected, and the observation stored
\* in the buffer keeps the raw label, capitals included.
C27_LabelNormalization ==
    lastOp.op = "record" =>
        /\ DisplayedEmotion(lastOp.emotion) \in CoreLabels
        /\ DisplayedEmotion(lastOp.emotion)
              = StatedDisplay(ToLowerCase(lastOp.emotion))
        /\ Appended =>
              /\ Len(emotionBuffer) > 0
              /\ emotionBuffer[Len(emotionBuffer)].emotion = lastOp.emotion

C27_Witness ==
    /\ Appended
    /\ lastOp.emotion = "Sad"
    /\ emotionBuffer[Len(emotionBuffer)].emotion = "Sad"
    /\ DisplayedEmotion(lastOp.emotion) = "frustrated"

\* no observation of the buffer is older than the window at the instant now
NothingStale ==
    \A i \in DOMAIN emotionBuffer :
        emotionBuffer[i].timestamp >= now - EMOTION_WINDOW_SIZE

\* C28 as stated: after every record(e, c, t), whether the observation was
\* appended or dropped by the neutral filter, the buffer holds no observation
\* with timestamp < t - 5000.
C28_RecordLeavesCleanAlways ==
    lastOp.op = "record" => NothingStale

\* C28 (amended): after every record(e, c, t) that appended its observation,
\* the buffer holds no observation with timestamp < t - 5000; a record() the
\* neutral filter dropped leaves the buffer as it was, stale entries included.
C28_RecordLeavesClean ==
    Appended => NothingStale

\* C28 witness: a record() appended its observation and the clean it triggers
\* evicted an older one.
C28_Witness ==
    /\ Appended
    /\ lastOp.before > 0
    /\ Len(emotionBuffer) <= lastOp.before
    /\ NothingStale

\* the label selectWinningEmotion returned is the label of a buffered entry
WinnerBuffered ==
    \E i \in DOMAIN emotionBuffer :
        emotionBuffer[i].emotion = windowResults.emotion

\* C29: whenever the buffer is non-empty after the clean pass, the emotion
\* selectWinningEmotion returns is the label of at least one buffered
\* observation, for every buffered confidence in [0,1], 0 included, so the
\* default confidence is not what a non-empty buffer yields.
C29_WinnerIsBuffered ==
    (lastOp.op = "select" /\ emotionBuffer # <<>>) => WinnerBuffered

\* C29 restricted to non-empty windows in which some label scores above zero
C29_WinnerIsBufferedWhenPositive ==
    (lastOp.op = "select" /\ emotionBuffer # <<>>
        /\ windowResults.totalScore > 0) => WinnerBuffered

\* the buffered observations carrying the winning label
WinnerEntries ==
    SelectSeq(emotionBuffer,
              LAMBDA entry : entry.emotion = windowResults.emotion)

\* sum of the stored confidences of the entries of buf labelled label, by index
RECURSIVE ConfidenceOf(_, _, _)
ConfidenceOf(buf, label, i) ==
    IF i = 0 THEN 0
    ELSE (IF buf[i].emotion = label THEN buf[i].confidence ELSE 0)
         + ConfidenceOf(buf, label, i - 1)

\* the returned confidence is the mean of the stored confidences of the
\* buffered observations labelled with the winner
MeanOfWinnerEntries ==
    /\ Len(WinnerEntries) > 0
    /\ windowResults.confNum * Len(WinnerEntries)
          = ConfidenceOf(emotionBuffer, windowResults.emotion,
                         Len(emotionBuffer)) * windowResults.confDen

-----------------------------------------------------------------------------
(* Claims about ties, purity, the metrics, the triggers and the scene index *)

\* the greatest summed composite score among the labels of the buffer
RECURSIVE GreatestScore(_)
GreatestScore(entries) ==
    IF entries = <<>> THEN 0
    ELSE LET rest == GreatestScore(Tail(entries))
         IN  IF Head(entries)[2] > rest THEN Head(entries)[2] ELSE rest

\* the first-seen label among those that reach the greatest score
FirstSeenBest(buf, currentTime) ==
    LET entries == CompositeEmotionScores(buf, currentTime)
        best == GreatestScore(entries)
        i == CHOOSE k \in 1..Len(entries) :
                /\ entries[k][2] = best
                /\ \A j \in 1..(k - 1) : entries[j][2] # best
    IN  entries[i][1]

\* two labels of the buffer share the greatest score
TiedAtTop ==
    LET entries == CompositeEmotionScores(emotionBuffer, now)
    IN  \E j, k \in 1..Len(entries) :
            /\ j # k
            /\ entries[j][2] = GreatestScore(entries)
            /\ entries[k][2] = GreatestScore(entries)

\* C31: when two or more labels share the greatest summed composite score,
\* selectWinningEmotion returns the one among them whose first observation
\* is earliest in the buffer.
C31_TieBreak ==
    (lastOp.op = "select" /\ emotionBuffer # <<>> /\ TiedAtTop) =>
        windowResults.emotion = FirstSeenBest(emotionBuffer, now)

\* C31 restricted to ties at a score above zero
C31_TieBreakWhenPositive ==
    (lastOp.op = "select" /\ emotionBuffer # <<>> /\ TiedAtTop
        /\ windowResults.totalScore > 0) =>
        windowResults.emotion = FirstSeenBest(emotionBuffer, now)

\* a tie above zero has been settled
C31_PositiveTieReached ==
    /\ lastOp.op = "select"
    /\ TiedAtTop
    /\ windowResults.totalScore > 0

\* clean(now) as the specification words it: every entry with
\* timestamp < now - 5000 removed
Cleaned(buf, t) ==
    SelectSeq(buf, LAMBDA entry : ~(entry.timestamp < t - 5000))

\* C32: selectWinningEmotion and captureBiometricSnapshot leave the buffer
\* equal to clean(now) of the buffer before the call, leave currentEmotion,
\* the intensity, the three metrics and the mode as they were, and a second
\* call at the same instant returns what the first returned.
C32_ScorerPurity ==
    [][lastOp'.op \in {"select", "snapshot"} =>
          /\ emotionBuffer' = Cleaned(emotionBuffer, now)
          /\ UNCHANGED <<stateVars, demoMode, webcamControlsState,
                         isWebcamActive>>
          /\ (lastOp.op = lastOp'.op /\ now' = now) =>
                /\ windowResults' = windowResults
                /\ snapshot' = snapshot
                /\ emotionBuffer' = emotionBuffer]_vars

\* C32 witness: in webcam mode, with a live emotion other than the initial
\* one, the scorer was called after the recorded observation had left the
\* window, and its clean pass emptied the buffer.
C32_Witness ==
    /\ lastOp.op = "select"
    /\ webcamControlsState
    /\ windowResults.emotion = "neutral"
    /\ windowResults.totalScore = ScoreOne
    /\ emotionBuffer = <<>>
    /\ observed
    /\ currentEmotion # "neutral"

\* the chat operations: a submission, the tutor's message, a failed request
ChatOps == {"submit", "answer", "requestFailed", "chat"}

\* C33: the arrival of a chat message from the user or from the tutor, and
\* the submission of a message, leave engagement, attention and
\* cognitiveLoad unchanged.
C33_ChatLeavesMetrics ==
    [][lastOp'.op \in ChatOps =>
          UNCHANGED <<engagementScore, attentionScore, cognitiveLoad>>]_vars

\* the part of C33 about attention and cognitiveLoad
C33_ChatLeavesAttentionAndLoad ==
    [][lastOp'.op \in ChatOps =>
          UNCHANGED <<attentionScore, cognitiveLoad>>]_vars

\* neither the demo nor the webcam mode is on
Autonomous == ~demoMode /\ ~webcamControlsState

\* a step taken within the autonomous mode
AutonomousStep == Autonomous /\ Autonomous'

\* a trigger is scheduled only by the tutor's answer that carries a message
ScheduledOnlyByAnswer ==
    Len(triggers') > Len(triggers) => lastOp'.op = "answer"

C35_IntensityDecay ==
    [][(lastOp'.op = "draw" /\ ~demoMode
          /\ currentEmotion' = currentEmotion) =>
          /\ emotionIntensity' <= emotionIntensity
          /\ emotionIntensity' >= 50000]_vars

\* the webcam update of draw() is due and lifts the intensity to 0.7
WebcamLift ==
    /\ webcamControlsState
    /\ now - lastWebcamUpdate > WEBCAM_UPDATE_INTERVAL
    /\ bioSignalData.emotion # ""
    /\ emotionIntensity < 70000

\* C35 (amended): in the autonomous and the webcam mode, on every tick on
\* which currentEmotion does not change, the intensity is not below the floor
\* 0.5 afterwards and does not increase, except on the ticks of the webcam
\* mode that run the half-second webcam update while the intensity is below
\* 0.7: those set it to 0.7 before the decay of the frame.
C35_IntensityDecayOrLift ==
    [][(lastOp'.op = "draw" /\ ~demoMode
          /\ currentEmotion' = currentEmotion) =>
          /\ emotionIntensity' >= 50000
          /\ IF WebcamLift
             THEN emotionIntensity' = (70000 * 19999) \div 20000
             ELSE emotionIntensity' <= emotionIntensity]_vars

\* C35 witness: outside the demo a frame has decayed an intensity that was
\* above the floor and that no webcam update lifted.
C35_Witness ==
    /\ lastOp.op = "draw"
    /\ ~demoMode
    /\ emotionIntensity > 50000
    /\ emotionIntensity < (70000 * 19999) \div 20000

\* the active scene of the demo is one whose transitionTo is another label
\* than its starting emotion
InJumpScene ==
    /\ demoMode
    /\ SceneAt(currentScene).transitionTo # ""
    /\ SceneAt(currentScene).transitionTo # SceneAt(currentScene).emotion

\* the step applied the deltas of the same-label transition
IntensifyApplied ==
    /\ firstApplied' = firstApplied + 1
    /\ emotionIntensity' = 90000
    /\ cognitiveLoad' = Min(cognitiveLoad + 15000, 95000)
    /\ engagementScore' = Max(engagementScore - 10000, 30000)
    /\ attentionScore' = Max(attentionScore - 10000, 40000)

\* C36: in a scene whose transitionTo differs from its starting emotion, the
\* first transition never applies the deltas of the same-label transition
\* (intensity 0.9, cognitiveLoad +0.15, engagement -0.1, attention -0.1),
\* whichever of the tick and the timer scheduled at entry comes first.
C36_JumpNeverIntensifies ==
    [][(lastOp'.op = "draw" /\ InJumpScene) => ~IntensifyApplied]_vars

\* an autonomous trigger has an outcome that changes currentEmotion
TriggerCanChange ==
    \E random \in AllDraws :
        SelectedEmotion(TransitionProbabilities(currentEmotion), random, 0,
                        currentEmotion) # currentEmotion

\* C37: in every reachable state in which the autonomous mode is active, the
\* states reached by disabling the webcam mode on a raw detector label
\* included, an autonomous trigger has at least one outcome that changes
\* currentEmotion.
C37_WalkNeverStuck == Autonomous => TriggerCanChange

\* C37 restricted to the four core labels
C37_WalkNeverStuckOnCore ==
    (Autonomous /\ currentEmotion \in CoreLabels) => TriggerCanChange

\* the step is the arrival of a detector result
ResultArrives == lastOp'.op \in {"lateResult", "observe"}

\* C38: a detector result that arrives while the webcam mode is not active,
\* such as the answer to a frame sent just before the webcam was disabled, is
\* not recorded in the buffer and changes none of currentEmotion, the
\* intensity and the three metrics.
C38_LateResultIgnored ==
    [][(ResultArrives /\ ~(webcamControlsState /\ isWebcamActive)) =>
          /\ lastOp'.op = "lateResult"
          /\ UNCHANGED <<emotionBuffer, stateVars>>]_vars

\* C38 witness: the answer to a frame sent before the webcam was disabled
\* has arrived afterwards, with a label other than the live emotion.
C38_Witness ==
    /\ lastOp.op = "lateResult"
    /\ ~isWebcamActive
    /\ ~webcamControlsState
    /\ bioSignalData.emotion = lastOp.emotion
    /\ currentEmotion # lastOp.emotion

C40_SceneIndexInRange ==
    /\ [](currentScene \in SceneIndexes)
    /\ [][lastOp'.op = "nextScene" =>
             /\ currentScene < Len(demoScenes) - 1
             /\ currentScene' = currentScene + 1]_vars
    /\ [][lastOp'.op = "nextSceneOnLast" =>
             /\ currentScene = Len(demoScenes) - 1
             /\ UNCHANGED <<now, bufVars, ctlVars>>]_vars

\* C40 witness: Next Scene was pressed on the last scene.
C40_Witness ==
    /\ lastOp.op = "nextSceneOnLast"
    /\ demoMode
    /\ currentScene = Len(demoScenes) - 1
    /\ currentEmotion = SceneAt(currentScene).emotion

====
